---- MODULE Spec2Model ----
(***************************************************************************)
(* Model of the organization extraction pipeline of                        *)
(* comprehensive_university_scraper.py (ComprehensiveUniversityScraper):   *)
(* the strategy cascade of extract_organizations_from_page, the linked-    *)
(* page strategy _find_linked_organizations with its fetch loop, the       *)
(* raw-text fallback _extract_from_general_content, the name-based         *)
(* duplicate removal, and the per-university loop of                       *)
(* run_comprehensive_scraping.                                             *)
(*                                                                         *)
(* Python strings (names, link texts, text lines, URLs, e-mail addresses,  *)
(* phone numbers) are sequences of character codes, so that lower(),       *)
(* strip(), split(), the `in` substring test, the regular expressions and  *)
(* urljoin are computed as Python computes them; <<>> is the empty Python  *)
(* string.  Category labels and tag names are TLA+ strings.                *)
(***************************************************************************)
EXTENDS Integers, Sequences, FiniteSets, TLC

\* ------------------------------------------------------------------------
\* Bounds of the model (not program constants)
\* ------------------------------------------------------------------------

\* largest expected_count handed to extract_organizations_from_page
MaxExpected == 4

\* most records one of the strategies 1-3 returns for a page
MaxPerStrategy == 2

\* the clubs of the pages of strategies 1-3 are club 0 .. club MaxNameIdx
MaxNameIdx == 1

\* most anchors of a page handed to _find_linked_organizations on its own
MaxAnchors == 22

\* most anchors of a page inside the cascade and inside a full run
MaxPageAnchors == 2

\* most linked-page fetches of one strategy run that do not give a page
MaxFailures == 1

\* most non-empty text lines of a page
MaxLines == 52

\* number of universities of a run
MaxUniversities == 3

\* most words of a candidate text put together from the vocabulary
MaxWords == 2

\* the most items a list of a document of the site "list" has
MaxItems == 4

\* the most links a container of the record builder holds beside a
\* mailto: or tel: link
MaxLinks == 2

\* the most calls of format_phone on a value and its results
MaxFormatCalls == 2

\* ------------------------------------------------------------------------
\* Python string operations on sequences of character codes
\* ------------------------------------------------------------------------

Min(a, b) == IF a < b THEN a ELSE b

\* characters str.strip() and str.split() treat as whitespace
Whitespace == {9, 10, 11, 12, 13, 32}

\* str.lower()
Lower(s) == [i \in 1..Len(s) |-> IF s[i] \in 65..90 THEN s[i] + 32 ELSE s[i]]

RECURSIVE LStrip(_)
LStrip(s) ==
  IF s # <<>> /\ Head(s) \in Whitespace THEN LStrip(Tail(s)) ELSE s

RECURSIVE RStrip(_)
RStrip(s) ==
  IF s # <<>> /\ s[Len(s)] \in Whitespace
    THEN RStrip(SubSeq(s, 1, Len(s) - 1))
    ELSE s

\* str.strip()
Strip(s) == RStrip(LStrip(s))

\* the Python test `sub in s` on strings
Contains(sub, s) ==
  \E i \in 0..(Len(s) - Len(sub)) :
    \A j \in 1..Len(sub) : s[i + j] = sub[j]

\* len(s.split()): the number of maximal runs of non-whitespace characters
WordCount(s) ==
  Cardinality({i \in 1..Len(s) :
                 /\ s[i] \notin Whitespace
                 /\ (i = 1 \/ s[i - 1] \in Whitespace)})

\* str.isdigit()
IsDigit(s) == s # <<>> /\ \A i \in 1..Len(s) : s[i] \in 48..57

\* ------------------------------------------------------------------------
\* _is_likely_organization_name
\* ------------------------------------------------------------------------

skip_terms ==
  <<
     <<104,111,109,101>>,  \* 'home'
     <<97,98,111,117,116>>,  \* 'about'
     <<99,111,110,116,97,99,116>>,  \* 'contact'
     <<108,111,103,105,110>>,  \* 'login'
     <<115,101,97,114,99,104>>,  \* 'search'
     <<109,101,110,117>>,  \* 'menu'
     <<110,97,118,105,103,97,116,105,111,110>>,  \* 'navigation'
     <<102,111,111,116,101,114>>,  \* 'footer'
     <<104,101,97,100,101,114>>,  \* 'header'
     <<115,105,100,101,98,97,114>>,  \* 'sidebar'
     <<109,97,105,110>>,  \* 'main'
     <<99,111,110,116,101,110,116>>,  \* 'content'
     <<112,97,103,101>>,  \* 'page'
     <<115,105,116,101>>,  \* 'site'
     <<99,111,112,121,114,105,103,104,116>>,  \* 'copyright'
     <<112,114,105,118,97,99,121>>,  \* 'privacy'
     <<116,101,114,109,115>>,  \* 'terms'
     <<112,111,108,105,99,121>>,  \* 'policy'
     <<98,97,99,107,32,116,111,32,116,111,112>>,  \* 'back to top'
     <<115,107,105,112,32,116,111>>,  \* 'skip to'
     <<99,108,105,99,107,32,104,101,114,101>>,  \* 'click here'
     <<114,101,97,100,32,109,111,114,101>>,  \* 'read more'
     <<108,101,97,114,110,32,109,111,114,101>>,  \* 'learn more'
     <<115,101,101,32,109,111,114,101>>,  \* 'see more'
     <<118,105,101,119,32,97,108,108>>,  \* 'view all'
     <<115,104,111,119,32,97,108,108>>,  \* 'show all'
     <<99,97,109,112,117,115>>,  \* 'campus'
     <<117,110,105,118,101,114,115,105,116,121>>,  \* 'university'
     <<99,111,108,108,101,103,101>>,  \* 'college'
     <<115,99,104,111,111,108>>,  \* 'school'
     <<101,100,117,99,97,116,105,111,110>>,  \* 'education'
     <<97,99,97,100,101,109,105,99>>,  \* 'academic'
     <<115,116,117,100,101,110,116,32,115,101,114,118,105,99,101,115>>   \* 'student services'
  >>


org_indicators ==
  <<
     <<99,108,117,98>>,  \* 'club'
     <<115,111,99,105,101,116,121>>,  \* 'society'
     <<97,115,115,111,99,105,97,116,105,111,110>>,  \* 'association'
     <<111,114,103,97,110,105,122,97,116,105,111,110>>,  \* 'organization'
     <<103,114,111,117,112>>,  \* 'group'
     <<116,101,97,109>>,  \* 'team'
     <<99,111,117,110,99,105,108>>,  \* 'council'
     <<99,111,109,109,105,116,116,101,101>>,  \* 'committee'
     <<117,110,105,111,110>>,  \* 'union'
     <<102,114,97,116,101,114,110,105,116,121>>,  \* 'fraternity'
     <<115,111,114,111,114,105,116,121>>,  \* 'sorority'
     <<104,111,110,111,114>>,  \* 'honor'
     <<115,116,117,100,101,110,116>>,  \* 'student'
     <<97,99,97,100,101,109,105,99>>,  \* 'academic'
     <<112,114,111,102,101,115,115,105,111,110,97,108>>,  \* 'professional'
     <<115,101,114,118,105,99,101>>,  \* 'service'
     <<118,111,108,117,110,116,101,101,114>>,  \* 'volunteer'
     <<104,111,110,111,114,32,115,111,99,105,101,116,121>>,  \* 'honor society'
     <<115,116,117,100,101,110,116,32,103,111,118,101,114,110,109,101,110,116>>   \* 'student government'
  >>

SeqAny(terms, text) == \E k \in 1..Len(terms) : Contains(terms[k], text)

\* lines 581-610 with the indicator test of line 609 made before the
\* skip_terms test of line 595
is_likely_indicator_first(text) ==
  LET text_lower == Strip(Lower(text))
      words      == WordCount(text)
  IN  /\ ~(text = <<>> \/ Len(text) < 3 \/ Len(text) > 300)
      /\ \/ SeqAny(org_indicators, text_lower)
         \/ /\ ~SeqAny(skip_terms, text_lower)
            /\ ~(IsDigit(text) \/ words < 1)
            /\ words >= 2 /\ words <= 12

\* lines 581-610 with the word count required of every text at line 609
is_likely_by_words(text) ==
  LET text_lower == Strip(Lower(text))
      words      == WordCount(text)
  IN  /\ ~(text = <<>> \/ Len(text) < 3 \/ Len(text) > 300)
      /\ ~SeqAny(skip_terms, text_lower)
      /\ ~(IsDigit(text) \/ words < 1)
      /\ words >= 2 /\ words <= 12

is_likely_organization_name(text) ==
  LET text_lower == Strip(Lower(text))
      words      == WordCount(text)
  IN  /\ ~(text = <<>> \/ Len(text) < 3 \/ Len(text) > 300)
      /\ ~SeqAny(skip_terms, text_lower)
      /\ ~(IsDigit(text) \/ words < 1)
      /\ (SeqAny(org_indicators, text_lower) \/ (words >= 2 /\ words <= 12))

\* ------------------------------------------------------------------------
\* _determine_category
\* ------------------------------------------------------------------------

\* lines 632-643 of ComprehensiveUniversityScraper: category_keywords, in
\* the order of the dict
category_keywords ==
  <<
    \* Academic: academic, honor society, honor, scholarship, study, research, education, phi theta kappa, national honor, dean's list
    [category |-> "Academic", keywords |-> <<
       <<97,99,97,100,101,109,105,99>>,
       <<104,111,110,111,114,32,115,111,99,105,101,116,121>>,
       <<104,111,110,111,114>>,
       <<115,99,104,111,108,97,114,115,104,105,112>>,
       <<115,116,117,100,121>>,
       <<114,101,115,101,97,114,99,104>>,
       <<101,100,117,99,97,116,105,111,110>>,
       <<112,104,105,32,116,104,101,116,97,32,107,97,112,112,97>>,
       <<110,97,116,105,111,110,97,108,32,104,111,110,111,114>>,
       <<100,101,97,110,39,115,32,108,105,115,116>>
     >>],
    \* Arts: art, music, theater, theatre, dance, creative, band, choir, drama, visual, performing
    [category |-> "Arts", keywords |-> <<
       <<97,114,116>>,
       <<109,117,115,105,99>>,
       <<116,104,101,97,116,101,114>>,
       <<116,104,101,97,116,114,101>>,
       <<100,97,110,99,101>>,
       <<99,114,101,97,116,105,118,101>>,
       <<98,97,110,100>>,
       <<99,104,111,105,114>>,
       <<100,114,97,109,97>>,
       <<118,105,115,117,97,108>>,
       <<112,101,114,102,111,114,109,105,110,103>>
     >>],
    \* Athletics: sport, athletic, team, recreation, fitness, basketball, football, soccer, baseball, volleyball
    [category |-> "Athletics", keywords |-> <<
       <<115,112,111,114,116>>,
       <<97,116,104,108,101,116,105,99>>,
       <<116,101,97,109>>,
       <<114,101,99,114,101,97,116,105,111,110>>,
       <<102,105,116,110,101,115,115>>,
       <<98,97,115,107,101,116,98,97,108,108>>,
       <<102,111,111,116,98,97,108,108>>,
       <<115,111,99,99,101,114>>,
       <<98,97,115,101,98,97,108,108>>,
       <<118,111,108,108,101,121,98,97,108,108>>
     >>],
    \* Cultural: cultural, international, heritage, ethnic, diversity, multicultural, african american, hispanic, asian
    [category |-> "Cultural", keywords |-> <<
       <<99,117,108,116,117,114,97,108>>,
       <<105,110,116,101,114,110,97,116,105,111,110,97,108>>,
       <<104,101,114,105,116,97,103,101>>,
       <<101,116,104,110,105,99>>,
       <<100,105,118,101,114,115,105,116,121>>,
       <<109,117,108,116,105,99,117,108,116,117,114,97,108>>,
       <<97,102,114,105,99,97,110,32,97,109,101,114,105,99,97,110>>,
       <<104,105,115,112,97,110,105,99>>,
       <<97,115,105,97,110>>
     >>],
    \* Greek Life: fraternity, sorority, greek, alpha, beta, gamma, delta, theta, phi, sigma
    [category |-> "Greek Life", keywords |-> <<
       <<102,114,97,116,101,114,110,105,116,121>>,
       <<115,111,114,111,114,105,116,121>>,
       <<103,114,101,101,107>>,
       <<97,108,112,104,97>>,
       <<98,101,116,97>>,
       <<103,97,109,109,97>>,
       <<100,101,108,116,97>>,
       <<116,104,101,116,97>>,
       <<112,104,105>>,
       <<115,105,103,109,97>>
     >>],
    \* Professional: professional, career, business, engineering, medical, law, nursing, education, technology
    [category |-> "Professional", keywords |-> <<
       <<112,114,111,102,101,115,115,105,111,110,97,108>>,
       <<99,97,114,101,101,114>>,
       <<98,117,115,105,110,101,115,115>>,
       <<101,110,103,105,110,101,101,114,105,110,103>>,
       <<109,101,100,105,99,97,108>>,
       <<108,97,119>>,
       <<110,117,114,115,105,110,103>>,
       <<101,100,117,99,97,116,105,111,110>>,
       <<116,101,99,104,110,111,108,111,103,121>>
     >>],
    \* Religious: christian, muslim, jewish, faith, religious, ministry, chapel, church, bible, spiritual
    [category |-> "Religious", keywords |-> <<
       <<99,104,114,105,115,116,105,97,110>>,
       <<109,117,115,108,105,109>>,
       <<106,101,119,105,115,104>>,
       <<102,97,105,116,104>>,
       <<114,101,108,105,103,105,111,117,115>>,
       <<109,105,110,105,115,116,114,121>>,
       <<99,104,97,112,101,108>>,
       <<99,104,117,114,99,104>>,
       <<98,105,98,108,101>>,
       <<115,112,105,114,105,116,117,97,108>>
     >>],
    \* Service: service, volunteer, community, outreach, charity, help, support, humanitarian, social service
    [category |-> "Service", keywords |-> <<
       <<115,101,114,118,105,99,101>>,
       <<118,111,108,117,110,116,101,101,114>>,
       <<99,111,109,109,117,110,105,116,121>>,
       <<111,117,116,114,101,97,99,104>>,
       <<99,104,97,114,105,116,121>>,
       <<104,101,108,112>>,
       <<115,117,112,112,111,114,116>>,
       <<104,117,109,97,110,105,116,97,114,105,97,110>>,
       <<115,111,99,105,97,108,32,115,101,114,118,105,99,101>>
     >>],
    \* Student Government: student government, sga, student association, student council, government, leadership
    [category |-> "Student Government", keywords |-> <<
       <<115,116,117,100,101,110,116,32,103,111,118,101,114,110,109,101,110,116>>,
       <<115,103,97>>,
       <<115,116,117,100,101,110,116,32,97,115,115,111,99,105,97,116,105,111,110>>,
       <<115,116,117,100,101,110,116,32,99,111,117,110,99,105,108>>,
       <<103,111,118,101,114,110,109,101,110,116>>,
       <<108,101,97,100,101,114,115,104,105,112>>
     >>],
    \* Special Interest: gaming, anime, technology, computer, environment, outdoor, photography, cooking, debate
    [category |-> "Special Interest", keywords |-> <<
       <<103,97,109,105,110,103>>,
       <<97,110,105,109,101>>,
       <<116,101,99,104,110,111,108,111,103,121>>,
       <<99,111,109,112,117,116,101,114>>,
       <<101,110,118,105,114,111,110,109,101,110,116>>,
       <<111,117,116,100,111,111,114>>,
       <<112,104,111,116,111,103,114,97,112,104,121>>,
       <<99,111,111,107,105,110,103>>,
       <<100,101,98,97,116,101>>
     >>]
  >>

\* lines 261-271 of scrape_universities_91_100.py: category_keywords of
\* UniversityOrganizationScraper, in the order of the dict
category_keywords_91_100 ==
  <<
    \* Academic: academic, honor, scholarship, study, research, education
    [category |-> "Academic", keywords |-> <<
       <<97,99,97,100,101,109,105,99>>,
       <<104,111,110,111,114>>,
       <<115,99,104,111,108,97,114,115,104,105,112>>,
       <<115,116,117,100,121>>,
       <<114,101,115,101,97,114,99,104>>,
       <<101,100,117,99,97,116,105,111,110>>
     >>],
    \* Arts: art, music, theater, theatre, dance, creative, band, choir
    [category |-> "Arts", keywords |-> <<
       <<97,114,116>>,
       <<109,117,115,105,99>>,
       <<116,104,101,97,116,101,114>>,
       <<116,104,101,97,116,114,101>>,
       <<100,97,110,99,101>>,
       <<99,114,101,97,116,105,118,101>>,
       <<98,97,110,100>>,
       <<99,104,111,105,114>>
     >>],
    \* Athletic: sport, athletic, team, recreation, fitness, basketball, football
    [category |-> "Athletic", keywords |-> <<
       <<115,112,111,114,116>>,
       <<97,116,104,108,101,116,105,99>>,
       <<116,101,97,109>>,
       <<114,101,99,114,101,97,116,105,111,110>>,
       <<102,105,116,110,101,115,115>>,
       <<98,97,115,107,101,116,98,97,108,108>>,
       <<102,111,111,116,98,97,108,108>>
     >>],
    \* Cultural: cultural, international, heritage, ethnic, diversity
    [category |-> "Cultural", keywords |-> <<
       <<99,117,108,116,117,114,97,108>>,
       <<105,110,116,101,114,110,97,116,105,111,110,97,108>>,
       <<104,101,114,105,116,97,103,101>>,
       <<101,116,104,110,105,99>>,
       <<100,105,118,101,114,115,105,116,121>>
     >>],
    \* Greek: fraternity, sorority, greek, alpha, beta, gamma, delta
    [category |-> "Greek", keywords |-> <<
       <<102,114,97,116,101,114,110,105,116,121>>,
       <<115,111,114,111,114,105,116,121>>,
       <<103,114,101,101,107>>,
       <<97,108,112,104,97>>,
       <<98,101,116,97>>,
       <<103,97,109,109,97>>,
       <<100,101,108,116,97>>
     >>],
    \* Professional: professional, career, business, engineering, medical, law
    [category |-> "Professional", keywords |-> <<
       <<112,114,111,102,101,115,115,105,111,110,97,108>>,
       <<99,97,114,101,101,114>>,
       <<98,117,115,105,110,101,115,115>>,
       <<101,110,103,105,110,101,101,114,105,110,103>>,
       <<109,101,100,105,99,97,108>>,
       <<108,97,119>>
     >>],
    \* Religious: christian, muslim, jewish, faith, religious, ministry, chapel
    [category |-> "Religious", keywords |-> <<
       <<99,104,114,105,115,116,105,97,110>>,
       <<109,117,115,108,105,109>>,
       <<106,101,119,105,115,104>>,
       <<102,97,105,116,104>>,
       <<114,101,108,105,103,105,111,117,115>>,
       <<109,105,110,105,115,116,114,121>>,
       <<99,104,97,112,101,108>>
     >>],
    \* Service: service, volunteer, community, outreach, charity, help
    [category |-> "Service", keywords |-> <<
       <<115,101,114,118,105,99,101>>,
       <<118,111,108,117,110,116,101,101,114>>,
       <<99,111,109,109,117,110,105,116,121>>,
       <<111,117,116,114,101,97,99,104>>,
       <<99,104,97,114,105,116,121>>,
       <<104,101,108,112>>
     >>],
    \* Special Interest: gaming, anime, technology, computer, environment, outdoor
    [category |-> "Special Interest", keywords |-> <<
       <<103,97,109,105,110,103>>,
       <<97,110,105,109,101>>,
       <<116,101,99,104,110,111,108,111,103,121>>,
       <<99,111,109,112,117,116,101,114>>,
       <<101,110,118,105,114,111,110,109,101,110,116>>,
       <<111,117,116,100,111,111,114>>
     >>]
  >>

\* the loop "for category, keywords in table.items()" from entry k on: the
\* first category one of whose keywords is in the text, else 'General'
RECURSIVE FirstCategory(_, _, _)
FirstCategory(table, k, t) ==
  IF k > Len(table) THEN "General"
  ELSE IF SeqAny(table[k].keywords, t) THEN table[k].category
  ELSE FirstCategory(table, k + 1, t)

\* the same loop that goes on after a match: the last matching category
RECURSIVE LastCategory(_, _, _)
LastCategory(table, k, t) ==
  IF k > Len(table) THEN "General"
  ELSE LET rest == LastCategory(table, k + 1, t)
       IN  IF rest # "General" THEN rest
           ELSE IF SeqAny(table[k].keywords, t) THEN table[k].category
           ELSE "General"

\* lines 629-650 returning the last matching category
determine_category_last(name, description) ==
  LastCategory(category_keywords, 1, Lower(name \o <<32>> \o description))

\* lines 629-650: ComprehensiveUniversityScraper._determine_category
determine_category(name, description) ==
  FirstCategory(category_keywords, 1, Lower(name \o <<32>> \o description))

\* scrape_universities_91_100.py lines 257-277:
\* UniversityOrganizationScraper._determine_category
determine_category_91_100(name, description) ==
  FirstCategory(category_keywords_91_100, 1,
                Lower(name \o <<32>> \o description))

\* the words names are put together from for the classifier: "Honor", "Band", "Team", "Alpha", "Chess", "Gaming", "Technology", "Government"
CategoryVocabulary ==
  << <<72,111,110,111,114>>,
     <<66,97,110,100>>,
     <<84,101,97,109>>,
     <<65,108,112,104,97>>,
     <<67,104,101,115,115>>,
     <<71,97,109,105,110,103>>,
     <<84,101,99,104,110,111,108,111,103,121>>,
     <<71,111,118,101,114,110,109,101,110,116>> >>

\* the names of n words of that vocabulary
RECURSIVE CategoryPhrases(_)
CategoryPhrases(n) ==
  IF n = 0 THEN {<<>>}
  ELSE IF n = 1 THEN {CategoryVocabulary[k] : k \in 1..Len(CategoryVocabulary)}
  ELSE {p \o <<32>> \o CategoryVocabulary[k] :
          p \in CategoryPhrases(n - 1), k \in 1..Len(CategoryVocabulary)}

\* ------------------------------------------------------------------------
\* re.findall of the e-mail and phone patterns; str.replace, str.split
\* ------------------------------------------------------------------------

\* the character classes of the patterns: \w, [A-Za-z0-9._%+-],
\* [A-Za-z0-9.-], [A-Za-z] and [A-Z|a-z]
Chars ==
  [word    |-> (48..57) \cup (65..90) \cup (97..122) \cup {95},
   local   |-> (48..57) \cup (65..90) \cup (97..122) \cup {95, 46, 37, 43, 45},
   domain  |-> (48..57) \cup (65..90) \cup (97..122) \cup {46, 45},
   letters |-> (65..90) \cup (97..122),
   tld     |-> (65..90) \cup (97..122) \cup {124}]

\* the position of the first character of s from position i on that is in
\* the set; without one, the position after the end of s (i, if that is
\* later)
FindChar(s, i, set) ==
  LET First(hits) ==
        IF hits = {} THEN (IF i > Len(s) THEN i ELSE Len(s) + 1)
        ELSE CHOOSE j \in hits : \A k \in hits : j <= k
  IN  First({j \in i..Len(s) : s[j] \in set})

\* how many characters of the class follow one another from position i on
RunLen(s, i, class) ==
  LET First(stops) ==
        IF stops = {} THEN (IF i > Len(s) THEN i ELSE Len(s) + 1)
        ELSE CHOOSE j \in stops : \A k \in stops : j <= k
  IN  First({j \in i..Len(s) : s[j] \notin class}) - i

\* lines 524-528: email_patterns. Each is \b local+ at domain+ dot tld{2,}
\* \b, with \s* around at and dot in the second and the third pattern
email_patterns ==
  << [at |-> <<64>>, dot |-> <<46>>, spaced |-> FALSE, tld |-> Chars.tld],
     [at |-> <<91,97,116,93>>, dot |-> <<91,100,111,116,93>>,
      spaced |-> TRUE, tld |-> Chars.letters],
     [at |-> <<64>>, dot |-> <<46>>, spaced |-> TRUE,
      tld |-> Chars.letters] >>

\* the last position of the match of the pattern that starts at position
\* i, 0 if there is none. '@' and '[' are in no class, so the local part
\* and every \s* take the whole run; the domain gives back characters
\* until a dot follows it, the tld until \b follows it.
MatchEnd(s, i, pattern) ==
  LET \* \b between positions j - 1 and j
      Boundary(j) ==
        (j > 1 /\ j - 1 <= Len(s) /\ s[j - 1] \in Chars.word)
          # (j <= Len(s) /\ s[j] \in Chars.word)
      \* the literal t stands at position j, in whatever case
      \* (re.IGNORECASE)
      LitAt(j, t) ==
        /\ j + Len(t) - 1 <= Len(s)
        /\ Lower(SubSeq(s, j, j + Len(t) - 1)) = t
      \* \s* from position j on, where the pattern has one
      SkipSpace(j) ==
        IF pattern.spaced THEN j + RunLen(s, j, Whitespace) ELSE j
      Max(S) == CHOOSE x \in S : \A y \in S : y <= x
      \* the tld that starts at position start: its longest run before \b
      TldEnd(start) ==
        LET lens == {n \in 2..RunLen(s, start, pattern.tld) :
                       Boundary(start + n)}
        IN  IF lens = {} THEN 0 ELSE start + Max(lens) - 1
      \* the dot and the tld after a domain of d characters from p2 on
      EndAt(p2, d) ==
        LET dot == SkipSpace(p2 + d)
        IN  IF LitAt(dot, pattern.dot)
              THEN TldEnd(SkipSpace(dot + Len(pattern.dot)))
            ELSE 0
      \* the longest domain from p2 on that a dot and a tld follow
      Domain(p2) ==
        LET ds == {d \in 1..RunLen(s, p2, Chars.domain) : EndAt(p2, d) # 0}
        IN  IF ds = {} THEN 0 ELSE EndAt(p2, Max(ds))
      At(p1) ==
        IF LitAt(p1, pattern.at) THEN Domain(SkipSpace(p1 + Len(pattern.at)))
        ELSE 0
      L == RunLen(s, i, Chars.local)
  IN  IF Boundary(i) /\ L >= 1 THEN At(SkipSpace(i + L)) ELSE 0

\* re.findall(pattern, s, re.IGNORECASE) from position i on: ends[j] is
\* the end of the match that starts at j; the leftmost match is taken,
\* then the matches after its end
FindAll(s, i, pattern) ==
  LET RECURSIVE Matches(_, _)
      Matches(ends, j) ==
        LET Match(k) == <<SubSeq(s, k, ends[k])>> \o Matches(ends, ends[k] + 1)
            First(starts) ==
              IF starts = {} THEN <<>>
              ELSE Match(CHOOSE k \in starts : \A m \in starts : k <= m)
        IN  First({k \in j..Len(s) : ends[k] # 0})
  IN  Matches([j \in 1..Len(s) |-> MatchEnd(s, j, pattern)], i)

\* s.replace(old, new), old not empty: the leftmost occurrence is
\* replaced, then the occurrences after it
RECURSIVE Replace(_, _, _)
Replace(s, old, new) ==
  LET At(p) ==
        SubSeq(s, 1, p - 1) \o new
          \o Replace(SubSeq(s, p + Len(old), Len(s)), old, new)
      First(hits) ==
        IF hits = {} THEN s
        ELSE At(CHOOSE p \in hits : \A q \in hits : p <= q)
  IN  First({p \in 1..(Len(s) - Len(old) + 1) :
               SubSeq(s, p, p + Len(old) - 1) = old})

\* lines 544-552: the loop over cleaned_emails from index k on.
\* skip_patterns: noreply, webmaster, admin@university,
\* support@university, info@example; the terms of line 549: student, club,
\* org, group, society
RECURSIVE FilterEmails(_, _, _)
FilterEmails(cleaned_emails, k, filtered_emails) ==
  LET skip_patterns ==
        << <<110,111,114,101,112,108,121>>,
           <<119,101,98,109,97,115,116,101,114>>,
           <<97,100,109,105,110,64,117,110,105,118,101,114,115,105,116,121>>,
           <<115,117,112,112,111,114,116,64,117,110,105,118,101,114,115,105,
             116,121>>,
           <<105,110,102,111,64,101,120,97,109,112,108,101>> >>
      org_terms ==
        << <<115,116,117,100,101,110,116>>,
           <<99,108,117,98>>,
           <<111,114,103>>,
           <<103,114,111,117,112>>,
           <<115,111,99,105,101,116,121>> >>
      With(email) ==
        IF SeqAny(skip_patterns, Lower(email)) THEN filtered_emails
        ELSE IF SeqAny(org_terms, Lower(email))
          THEN <<email>> \o filtered_emails
        ELSE Append(filtered_emails, email)
  IN  IF k > Len(cleaned_emails) THEN filtered_emails
      ELSE FilterEmails(cleaned_emails, k + 1, With(cleaned_emails[k]))

\* lines 521-554
extract_email_from_text(text) ==
  LET Cleaned(all_emails) ==
        [k \in 1..Len(all_emails) |->
           Replace(Replace(Replace(all_emails[k], <<91,97,116,93>>, <<64>>),
                           <<91,100,111,116,93>>, <<46>>),
                   <<32>>, <<>>)]
      First(filtered_emails) ==
        IF filtered_emails # <<>> THEN filtered_emails[1] ELSE <<>>
  IN  First(FilterEmails(Cleaned(FindAll(text, 1, email_patterns[1])
                                   \o FindAll(text, 1, email_patterns[2])
                                   \o FindAll(text, 1, email_patterns[3])),
                         1, <<>>))

\* the last position of the match of \(?\d{3}\)?[-.\s]?\d{3}[-.\s]?\d{4}
\* (line 564) that starts at position i, 0 if there is none
PhoneEnd(s, i) ==
  LET \* an optional character of the set at position j: the position
      \* after it
      Optional(j, set) == IF j <= Len(s) /\ s[j] \in set THEN j + 1 ELSE j
      \* \d{n} at position j
      Digits(j, n) ==
        /\ j + n - 1 <= Len(s)
        /\ \A k \in j..(j + n - 1) : s[k] \in 48..57
      \* [-.\s]
      separators == {45, 46} \cup Whitespace
      Last(a, c, d) ==
        IF Digits(a, 3) /\ Digits(c, 3) /\ Digits(d, 4) THEN d + 3 ELSE 0
      Second(a, c) == Last(a, c, Optional(c + 3, separators))
      First(a) ==
        Second(a, Optional(Optional(a + 3, {41}), separators))
  IN  First(Optional(i, {40}))

\* re.findall(phone_patterns[0], s)[0] from position i on, "" without match
FirstPhone(s, i) ==
  LET Match(j) == SubSeq(s, j, PhoneEnd(s, j))
      First(starts) ==
        IF starts = {} THEN <<>>
        ELSE Match(CHOOSE j \in starts : \A k \in starts : j <= k)
  IN  First({j \in i..Len(s) : PhoneEnd(s, j) # 0})

\* lines 561-579. Every match of the first pattern has 10 digits and is
\* returned; each text the other four patterns match holds a match of the
\* first, so they are reached only when nothing matches.
extract_phone_from_text(text) == Strip(FirstPhone(text, 1))

\* s.startswith(prefix)
StartsWith(s, prefix) ==
  Len(s) >= Len(prefix) /\ SubSeq(s, 1, Len(prefix)) = prefix

\* [line.strip() for line in s.split('\n') if line.strip()]
RECURSIVE StrippedLines(_)
StrippedLines(s) ==
  LET Lines(line, rest) == IF line # <<>> THEN <<line>> \o rest ELSE rest
      Split(e) ==
        Lines(Strip(SubSeq(s, 1, e - 1)),
              StrippedLines(SubSeq(s, e + 1, Len(s))))
  IN  IF s = <<>> THEN <<>> ELSE Split(FindChar(s, 1, {10}))

\* separator.join(texts)
RECURSIVE Join(_, _)
Join(texts, separator) ==
  IF texts = <<>> THEN <<>>
  ELSE IF Len(texts) = 1 THEN texts[1]
  ELSE texts[1] \o separator \o Join(Tail(texts), separator)

\* BeautifulSoup get_text() of an element, given its strings in document
\* order
get_text(strings) == Join(strings, <<>>)

\* get_text(strip=True): the stripped strings that are not empty, joined
RECURSIVE StrippedStrings(_)
StrippedStrings(strings) ==
  IF strings = <<>> THEN <<>>
  ELSE LET stripped == Strip(strings[1])
           rest     == StrippedStrings(Tail(strings))
       IN  IF stripped # <<>> THEN <<stripped>> \o rest ELSE rest

get_text_strip(strings) == Join(StrippedStrings(strings), <<>>)

\* ------------------------------------------------------------------------
\* Texts, URLs and records
\* ------------------------------------------------------------------------

\* the words candidate texts are put together from: "Chess", "Club", "Home",
\* "Student", "Services", "42", "of", "Academic"
Vocabulary ==
  << <<67,104,101,115,115>>, <<67,108,117,98>>, <<72,111,109,101>>,
     <<83,116,117,100,101,110,116>>, <<83,101,114,118,105,99,101,115>>,
     <<52,50>>, <<111,102>>, <<65,99,97,100,101,109,105,99>> >>

\* the texts of n words of the vocabulary, separated by single spaces
RECURSIVE Phrases(_)
Phrases(n) ==
  IF n = 0 THEN {<<>>}
  ELSE IF n = 1 THEN {Vocabulary[k] : k \in 1..Len(Vocabulary)}
  ELSE {p \o <<32>> \o Vocabulary[k] :
          p \in Phrases(n - 1), k \in 1..Len(Vocabulary)}

\* word w written n times, separated by single spaces
RECURSIVE Repeated(_, _)
Repeated(w, n) == IF n = 1 THEN w ELSE Repeated(w, n - 1) \o <<32>> \o w

\* "Club 00", "club 00", "CLUB 00", "Club 01", ...: the name of club k as
\* the pages write it
Name(k, style) ==
  (CASE style = 0 -> <<67, 108, 117, 98>>
     [] style = 1 -> <<99, 108, 117, 98>>
     [] style = 2 -> <<67, 76, 85, 66>>)
    \o <<32, 48 + (k \div 10), 48 + (k % 10)>>

\* "Home": a navigation text
TextHome == <<72, 111, 109, 101>>

\* "https://www.bhsu.edu/clubs": the URL of the page being scraped
base_url ==
  <<104,116,116,112,115,58,47,47>>
    \o <<119,119,119,46,98,104,115,117,46,101,100,117>>
    \o <<47,99,108,117,98,115>>

\* ------------------------------------------------------------------------
\* urllib.parse: urlparse(url).netloc and urljoin(base, url), for URLs
\* without dot segments, parameters, control characters and brackets
\* ------------------------------------------------------------------------

\* urlparse(url): scheme (lowered), netloc, path, and what follows the path
\* (query and fragment with their "?" and "#"; a "#" with nothing after it
\* is no fragment). The parts are cut at positions of url: colon ends the
\* scheme (0 without one), netlocEnd is where the path starts and pathEnd
\* where it ends.
urlparse(url) ==
  LET \* the position of the ":" that ends the scheme of url, 0 if it has
      \* none: a scheme is a letter and then letters, digits, "+", "-", "."
      SchemeEnd(colon) ==
        IF /\ colon \in 2..Len(url)
           /\ url[1] \in Chars.letters
           /\ \A k \in 1..(colon - 1) :
                url[k] \in Chars.letters \cup (48..57) \cup {43, 45, 46}
          THEN colon ELSE 0
      Parts(colon, slashes, netlocEnd, pathEnd) ==
        [scheme    |-> Lower(SubSeq(url, 1, colon - 1)),
         slashes   |-> slashes,
         netloc    |-> IF slashes THEN SubSeq(url, colon + 3, netlocEnd - 1)
                       ELSE <<>>,
         path      |-> SubSeq(url, netlocEnd, pathEnd - 1),
         following |-> IF SubSeq(url, pathEnd, Len(url)) = <<35>> THEN <<>>
                       ELSE SubSeq(url, pathEnd, Len(url))]
      Path(colon, slashes, netlocEnd) ==
        Parts(colon, slashes, netlocEnd, FindChar(url, netlocEnd, {63, 35}))
      Netloc(colon, slashes) ==
        Path(colon, slashes,
             IF slashes THEN FindChar(url, colon + 3, {47, 63, 35})
             ELSE colon + 1)
      Scheme(colon) ==
        Netloc(colon, /\ colon + 2 <= Len(url)
                      /\ url[colon + 1] = 47 /\ url[colon + 2] = 47)
  IN  Scheme(SchemeEnd(FindChar(url, 1, {58})))

\* the position of the last "/" of s, 0 if there is none
RECURSIVE LastSlash(_, _)
LastSlash(s, i) ==
  IF i = 0 \/ s[i] = 47 THEN i ELSE LastSlash(s, i - 1)

\* urllib.parse.urljoin(base, url); "http" and "https" are the schemes
\* of uses_relative that the pages use
urljoin(base, url) ==
  LET uses_relative == {<<104,116,116,112>>, <<104,116,116,112,115>>}
      Joined(b, u) ==
        LET origin == b.scheme \o <<58, 47, 47>> \o b.netloc
            query  == IF u.following # <<>> /\ u.following[1] = 63
                        THEN u.following
                      ELSE SubSeq(b.following, 1,
                                  FindChar(b.following, 1, {35}) - 1)
                             \o u.following
            folder == SubSeq(b.path, 1, LastSlash(b.path, Len(b.path)))
        IN  IF base = <<>> THEN url
            ELSE IF url = <<>> THEN base
            ELSE IF u.scheme # <<>>
                    /\ (u.scheme # b.scheme \/ u.scheme \notin uses_relative)
              THEN url
            ELSE IF u.slashes /\ u.netloc # <<>>
              THEN b.scheme \o <<58, 47, 47>> \o u.netloc \o u.path
                     \o u.following
            ELSE IF u.path = <<>>
              THEN origin \o b.path \o query
            ELSE IF u.path[1] = 47
              THEN origin \o u.path \o u.following
            ELSE origin \o (IF folder = <<>> THEN <<47>> ELSE folder)
                   \o u.path \o u.following
  IN  Joined(urlparse(base), urlparse(url))

\* _is_external_link, lines 612-627; urlparse raises for none of the URLs
\* of the model
is_external_link(href, base) ==
  LET Foreign(base_domain, href_domain) ==
        IF href_domain = <<>> THEN FALSE
        ELSE /\ ~Contains(base_domain, href_domain)
             /\ ~Contains(href_domain, base_domain)
  IN  IF href = <<>> THEN TRUE
      ELSE Foreign(Lower(urlparse(base).netloc), Lower(urlparse(href).netloc))

\* ------------------------------------------------------------------------
\* Containers: the elements the record builder reads
\* ------------------------------------------------------------------------

\* A node is a text node (tag "") or an element that holds nothing but
\* text: its tag name, its strings, its href and its src attribute (each
\* <<>> when absent, <<value>> when present).
Node(tag, strings, href, src) ==
  [tag |-> tag, strings |-> strings, href |-> href, src |-> src]

TextNode(s) == Node("", <<s>>, <<>>, <<>>)

Element(tag, s) == Node(tag, IF s = <<>> THEN <<>> ELSE <<s>>, <<>>, <<>>)

\* <a href=...>s</a>
Link(href, s) == Node("a", IF s = <<>> THEN <<>> ELSE <<s>>, <<href>>, <<>>)

\* A container is the sequence of its nodes in document order, with the
\* nodes of its parent that come before and after it.
Container(before, nodes, after) ==
  [before |-> before, nodes |-> nodes, after |-> after]

\* container.parent: the nodes of the parent in document order
Parent(container) == container.before \o container.nodes \o container.after

\* the strings of the nodes in document order
RECURSIVE Strings(_)
Strings(nodes) ==
  IF nodes = <<>> THEN <<>>
  ELSE Head(nodes).strings \o Strings(Tail(nodes))

\* find_all(name): the elements with that tag name. A selector such as
\* ".title" is taken as a tag name as well and no element has it.
find_all(nodes, name) == SelectSeq(nodes, LAMBDA n : n.tag = name)

\* find(name): the first of them, <<>> for None
find(nodes, name) ==
  LET found == find_all(nodes, name)
  IN  IF found = <<>> THEN <<>> ELSE <<found[1]>>

\* find_all('a', href=True)
find_all_href(nodes) ==
  SelectSeq(nodes, LAMBDA n : n.tag = "a" /\ n.href # <<>>)

\* line 446
name_selectors ==
  <<"h1", "h2", "h3", "h4", "h5", "h6", ".title", ".name", "strong", "b",
    ".org-name">>

\* lines 448-453: the loop over name_selectors from index k on, <<>> when
\* no selector gives a name
RECURSIVE NameBySelector(_, _)
NameBySelector(container, k) ==
  LET Likely(name) ==
        IF name # <<>> /\ is_likely_organization_name(name) THEN name
        ELSE NameBySelector(container, k + 1)
      NameOf(element) ==
        Likely(IF element = <<>> THEN <<>>
               ELSE get_text_strip(element[1].strings))
  IN  IF k > Len(name_selectors) THEN <<>>
      ELSE NameOf(find(container.nodes, name_selectors[k]))

\* mutant: the first line of the container's text is returned unchecked
extract_name_unchecked(container) ==
  LET FirstLine(lines) == IF lines # <<>> THEN lines[1] ELSE <<>>
      FirstOf(by_selector) ==
        IF by_selector # <<>> THEN by_selector
        ELSE FirstLine(StrippedLines(get_text_strip(Strings(container.nodes))))
  IN  FirstOf(NameBySelector(container, 1))

\* _extract_name, lines 440-471, of a container that is no str
extract_name(container) ==
  LET Likely(name) ==
        IF name # <<>> /\ is_likely_organization_name(name) THEN name
        ELSE <<>>
      LinkName(first_link) ==
        IF first_link = <<>> THEN <<>>
        ELSE Likely(get_text_strip(first_link[1].strings))
      FirstLine(lines) == IF lines # <<>> THEN Likely(lines[1]) ELSE <<>>
      FirstOf(by_selector, link_name) ==
        IF by_selector # <<>> THEN by_selector
        ELSE IF link_name # <<>> THEN link_name
        ELSE FirstLine(StrippedLines(get_text_strip(Strings(container.nodes))))
  IN  FirstOf(NameBySelector(container, 1),
              LinkName(find(container.nodes, "a")))

\* lines 479-483
desc_selectors ==
  <<".description", ".summary", ".about", ".overview", ".content",
    ".details", ".info", ".mission", ".purpose", "p", ".text", ".excerpt",
    ".intro", ".profile">>

\* mutant: a text of exactly 20 characters is taken
RECURSIVE DescBySelectorInclusive(_, _, _)
DescBySelectorInclusive(container, k, j) ==
  LET boilerplate ==
        << <<99,108,105,99,107,32,104,101,114,101>>,
           <<114,101,97,100,32,109,111,114,101>>,
           <<108,101,97,114,110,32,109,111,114,101>>,
           <<99,111,110,116,97,99,116>>,
           <<104,111,109,101>>,
           <<97,98,111,117,116,32,117,115>> >>
      Taken(desc) ==
        IF /\ Len(desc) >= 20 /\ Len(desc) < 1000
           /\ ~SeqAny(boilerplate, Lower(desc))
          THEN SubSeq(desc, 1, Min(800, Len(desc)))
        ELSE DescBySelectorInclusive(container, k, j + 1)
      Among(elements) ==
        IF j > Len(elements) THEN DescBySelectorInclusive(container, k + 1, 1)
        ELSE Taken(get_text_strip(elements[j].strings))
  IN  IF k > Len(desc_selectors) THEN <<>>
      ELSE Among(find_all(container.nodes, desc_selectors[k]))

\* lines 486-494: the loops over desc_selectors from index k and over the
\* elements of a selector from index j on, <<>> when no element is taken.
\* The texts of line 493: click here, read more, learn more, contact,
\* home, about us
RECURSIVE DescBySelector(_, _, _)
DescBySelector(container, k, j) ==
  LET boilerplate ==
        << <<99,108,105,99,107,32,104,101,114,101>>,
           <<114,101,97,100,32,109,111,114,101>>,
           <<108,101,97,114,110,32,109,111,114,101>>,
           <<99,111,110,116,97,99,116>>,
           <<104,111,109,101>>,
           <<97,98,111,117,116,32,117,115>> >>
      Taken(desc) ==
        IF /\ Len(desc) > 20 /\ Len(desc) < 1000
           /\ ~SeqAny(boilerplate, Lower(desc))
          THEN SubSeq(desc, 1, Min(800, Len(desc)))
        ELSE DescBySelector(container, k, j + 1)
      Among(elements) ==
        IF j > Len(elements) THEN DescBySelector(container, k + 1, 1)
        ELSE Taken(get_text_strip(elements[j].strings))
  IN  IF k > Len(desc_selectors) THEN <<>>
      ELSE Among(find_all(container.nodes, desc_selectors[k]))

\* lines 503-508: the loop over lines[1:], from index k of lines on; the
\* prefixes of line 505: http, www, click, read more
RECURSIVE DescLines(_, _, _)
DescLines(lines, k, desc_lines) ==
  LET link_prefixes ==
        << <<104,116,116,112>>,
           <<119,119,119>>,
           <<99,108,105,99,107>>,
           <<114,101,97,100,32,109,111,114,101>> >>
      Next(next) ==
        IF Len(Join(next, <<32>>)) > 100 THEN next
        ELSE DescLines(lines, k + 1, next)
      With(line) ==
        Next(IF /\ Len(line) > 10
                /\ \A p \in 1..Len(link_prefixes) :
                     ~StartsWith(Lower(line), link_prefixes[p])
               THEN Append(desc_lines, line)
             ELSE desc_lines)
  IN  IF k > Len(lines) THEN desc_lines ELSE With(lines[k])

\* _extract_description, lines 473-514
extract_description(container) ==
  LET Fallback(lines, desc) ==
        IF Len(lines) > 1 /\ Len(desc) > 20 THEN SubSeq(desc, 1, Min(800, Len(desc))) ELSE <<>>
      FromLines(lines) ==
        Fallback(lines, Join(DescLines(lines, 2, <<>>), <<32>>))
      FirstOf(by_selector) ==
        IF by_selector # <<>> THEN by_selector
        ELSE FromLines(StrippedLines(
                         get_text_strip(Strings(container.nodes))))
  IN  FirstOf(DescBySelector(container, 1, 1))

\* _extract_email, lines 516-519
extract_email(container) ==
  extract_email_from_text(get_text(Strings(container.nodes)))

\* _extract_phone, lines 556-559
extract_phone(container) ==
  extract_phone_from_text(get_text(Strings(container.nodes)))

\* lines 279-293: org_data with every field ''; the category is a label,
\* a TLA+ string
org_data_empty ==
  [Category         |-> "",
   OrganizationName |-> <<>>,
   OrganizationLink |-> <<>>,
   LogoLink         |-> <<>>,
   Description      |-> <<>>,
   Email            |-> <<>>,
   PhoneNumber      |-> <<>>,
   LinkedinLink     |-> <<>>,
   InstagramLink    |-> <<>>,
   FacebookLink     |-> <<>>,
   TwitterLink      |-> <<>>,
   YoutubeLink      |-> <<>>,
   TiktokLink       |-> <<>>]

\* lines 327-341 and 412-424: the field the if/elif chain over the
\* platforms stores a link with this (lowered) href in, "" when no branch
\* is taken. The texts looked for are facebook, twitter, x.com, instagram,
\* linkedin, youtube and tiktok.
SocialField(href, org_data) ==
  IF /\ Contains(<<102,97,99,101,98,111,111,107>>, href)
     /\ org_data.FacebookLink = <<>>
    THEN "FacebookLink"
  ELSE IF /\ \/ Contains(<<116,119,105,116,116,101,114>>, href)
             \/ Contains(<<120,46,99,111,109>>, href)
          /\ org_data.TwitterLink = <<>>
    THEN "TwitterLink"
  ELSE IF /\ Contains(<<105,110,115,116,97,103,114,97,109>>, href)
          /\ org_data.InstagramLink = <<>>
    THEN "InstagramLink"
  ELSE IF /\ Contains(<<108,105,110,107,101,100,105,110>>, href)
          /\ org_data.LinkedinLink = <<>>
    THEN "LinkedinLink"
  ELSE IF /\ Contains(<<121,111,117,116,117,98,101>>, href)
          /\ org_data.YoutubeLink = <<>>
    THEN "YoutubeLink"
  ELSE IF /\ Contains(<<116,105,107,116,111,107>>, href)
          /\ org_data.TiktokLink = <<>>
    THEN "TiktokLink"
  ELSE ""

\* org_data[field] = full_url, for the field of the branch taken
Stored(org_data, field, full_url) ==
  IF field = "" THEN org_data ELSE [org_data EXCEPT ![field] = full_url]

\* lines 326-344: the loop over links from index k on; the last branch of
\* the chain (lines 342-344) stores the first internal link whose href
\* starts neither with "#" nor with "javascript"
RECURSIVE LinkLoop(_, _, _, _)
LinkLoop(links, k, org_data, base) ==
  IF k > Len(links) THEN org_data
  ELSE
    LET Field(href, social) ==
          IF social # "" THEN social
          ELSE IF /\ href # <<>>
                  /\ ~StartsWith(href, <<35>>)
                  /\ ~StartsWith(href,
                                 <<106,97,118,97,115,99,114,105,112,116>>)
                  /\ org_data.OrganizationLink = <<>>
                  /\ ~is_external_link(href, base)
            THEN "OrganizationLink"
          ELSE ""
        Chain(href) == Field(href, SocialField(href, org_data))
    IN  LinkLoop(links, k + 1,
                 Stored(org_data, Chain(Lower(links[k].href[1])),
                        urljoin(base, links[k].href[1])),
                 base)

\* lines 350-368: the src of the container's first img, else the src of
\* the parent's first img; no element has one of the logo_selectors as its
\* tag name
LogoLink(container, base) ==
  LET HasSrc(img) == img # <<>> /\ img[1].src # <<>> /\ img[1].src[1] # <<>>
      Src(img, parent_img) ==
        IF HasSrc(img) THEN img[1].src[1]
        ELSE IF HasSrc(parent_img) THEN parent_img[1].src[1]
        ELSE <<>>
      Joined(src) == IF src = <<>> THEN <<>> ELSE urljoin(base, src)
  IN  Joined(Src(find(container.nodes, "img"),
                 find(Parent(container), "img")))

\* mutant: the parent's text is searched for both contact fields, whatever
\* the container gave
extract_organization_details_parent_always(container, base) ==
  LET \* lines 305-317: the contact of the container, else of its parent
      Found(broader, own) == IF broader # <<>> THEN broader ELSE own
      Email(email) ==
        Found(extract_email_from_text(get_text(Strings(Parent(container)))),
              email)
      Phone(phone) ==
        Found(extract_phone_from_text(get_text(Strings(Parent(container)))),
              phone)
      Record(name, description) ==
        LinkLoop(find_all_href(container.nodes)
                   \o find_all_href(Parent(container)),
                 1,
                 [org_data_empty EXCEPT
                    !.OrganizationName = name,
                    !.Description      = description,
                    !.Email            = Email(extract_email(container)),
                    !.PhoneNumber      = Phone(extract_phone(container))],
                 base)
      Named(name, description) ==
        IF name = <<>> THEN <<>>
        ELSE <<[Record(name, description) EXCEPT
                  !.OrganizationLink = IF @ = <<>> THEN base ELSE @,
                  !.LogoLink         = LogoLink(container, base),
                  !.Category         = determine_category(name, description)]>>
  IN  Named(extract_name(container), extract_description(container))

\* mutant: a container without a description gives no record
extract_organization_details_complete(container, base) ==
  LET Email(email) ==
        IF email = <<>>
          THEN extract_email_from_text(get_text(Strings(Parent(container))))
        ELSE email
      Phone(phone) ==
        IF phone = <<>>
          THEN extract_phone_from_text(get_text(Strings(Parent(container))))
        ELSE phone
      Record(name, description) ==
        LinkLoop(find_all_href(container.nodes)
                   \o find_all_href(Parent(container)),
                 1,
                 [org_data_empty EXCEPT
                    !.OrganizationName = name,
                    !.Description      = description,
                    !.Email            = Email(extract_email(container)),
                    !.PhoneNumber      = Phone(extract_phone(container))],
                 base)
      Named(name, description) ==
        IF name = <<>> \/ description = <<>> THEN <<>>
        ELSE <<[Record(name, description) EXCEPT
                  !.OrganizationLink = IF @ = <<>> THEN base ELSE @,
                  !.LogoLink         = LogoLink(container, base),
                  !.Category         = determine_category(name, description)]>>
  IN  Named(extract_name(container), extract_description(container))

\* _extract_organization_details, lines 277-373: <<>> for {} and
\* <<org_data>> for a record
extract_organization_details(container, base) ==
  LET \* lines 305-317: the contact of the container, else of its parent
      Email(email) ==
        IF email = <<>>
          THEN extract_email_from_text(get_text(Strings(Parent(container))))
        ELSE email
      Phone(phone) ==
        IF phone = <<>>
          THEN extract_phone_from_text(get_text(Strings(Parent(container))))
        ELSE phone
      Record(name, description) ==
        LinkLoop(find_all_href(container.nodes)
                   \o find_all_href(Parent(container)),
                 1,
                 [org_data_empty EXCEPT
                    !.OrganizationName = name,
                    !.Description      = description,
                    !.Email            = Email(extract_email(container)),
                    !.PhoneNumber      = Phone(extract_phone(container))],
                 base)
      Named(name, description) ==
        IF name = <<>> THEN <<>>
        ELSE <<[Record(name, description) EXCEPT
                  !.OrganizationLink = IF @ = <<>> THEN base ELSE @,
                  !.LogoLink         = LogoLink(container, base),
                  !.Category         = determine_category(name, description)]>>
  IN  Named(extract_name(container), extract_description(container))

\* scrape_universities_91_100.py lines 99-124:
\* UniversityOrganizationScraper._is_likely_organization_name
is_likely_organization_name_91_100(text) ==
  LET skip_terms_91_100 ==
        <<
           <<104,111,109,101>>,  \* 'home'
           <<97,98,111,117,116>>,  \* 'about'
           <<99,111,110,116,97,99,116>>,  \* 'contact'
           <<108,111,103,105,110>>,  \* 'login'
           <<115,101,97,114,99,104>>,  \* 'search'
           <<109,101,110,117>>,  \* 'menu'
           <<110,97,118,105,103,97,116,105,111,110>>,  \* 'navigation'
           <<102,111,111,116,101,114>>,  \* 'footer'
           <<104,101,97,100,101,114>>,  \* 'header'
           <<115,105,100,101,98,97,114>>,  \* 'sidebar'
           <<109,97,105,110>>,  \* 'main'
           <<99,111,110,116,101,110,116>>,  \* 'content'
           <<112,97,103,101>>,  \* 'page'
           <<115,105,116,101>>,  \* 'site'
           <<99,111,112,121,114,105,103,104,116>>,  \* 'copyright'
           <<112,114,105,118,97,99,121>>,  \* 'privacy'
           <<116,101,114,109,115>>,  \* 'terms'
           <<112,111,108,105,99,121>>,  \* 'policy'
           <<98,97,99,107,32,116,111,32,116,111,112>>,  \* 'back to top'
           <<115,107,105,112,32,116,111>>,  \* 'skip to'
           <<115,116,117,100,101,110,116,32,108,105,102,101>>,  \* 'student life'
           <<99,97,109,112,117,115>>,  \* 'campus'
           <<117,110,105,118,101,114,115,105,116,121>>,  \* 'university'
           <<99,111,108,108,101,103,101>>,  \* 'college'
           <<115,99,104,111,111,108>>  \* 'school'
        >>
      org_indicators_91_100 ==
        <<
           <<99,108,117,98>>,  \* 'club'
           <<115,111,99,105,101,116,121>>,  \* 'society'
           <<97,115,115,111,99,105,97,116,105,111,110>>,  \* 'association'
           <<111,114,103,97,110,105,122,97,116,105,111,110>>,  \* 'organization'
           <<103,114,111,117,112>>,  \* 'group'
           <<116,101,97,109>>,  \* 'team'
           <<99,111,117,110,99,105,108>>,  \* 'council'
           <<99,111,109,109,105,116,116,101,101>>,  \* 'committee'
           <<117,110,105,111,110>>,  \* 'union'
           <<102,114,97,116,101,114,110,105,116,121>>,  \* 'fraternity'
           <<115,111,114,111,114,105,116,121>>,  \* 'sorority'
           <<104,111,110,111,114>>,  \* 'honor'
           <<115,116,117,100,101,110,116>>,  \* 'student'
           <<97,99,97,100,101,109,105,99>>,  \* 'academic'
           <<112,114,111,102,101,115,115,105,111,110,97,108>>,  \* 'professional'
           <<115,101,114,118,105,99,101>>,  \* 'service'
           <<118,111,108,117,110,116,101,101,114>>  \* 'volunteer'
        >>
      Words(words) == words >= 2 /\ words <= 8
  IN  /\ ~(text = <<>> \/ Len(text) < 3 \/ Len(text) > 200)
      /\ ~SeqAny(skip_terms_91_100, Lower(text))
      /\ \/ SeqAny(org_indicators_91_100, Lower(text))
         \/ Words(WordCount(text))

\* scrape_universities_91_100.py lines 126-184:
\* UniversityOrganizationScraper._extract_organization_details, with the
\* _extract_name (186-210), _extract_description (212-234), _extract_email
\* (236-241) and _extract_phone (243-255) of that class: <<>> for {} and
\* <<org_data>> for a record
extract_organization_details_91_100(container, base) ==
  LET Likely(name) ==
        IF name # <<>> /\ is_likely_organization_name_91_100(name) THEN name
        ELSE <<>>
      \* lines 191-196: the loop over name_selectors from index k on
      RECURSIVE NameBy(_)
      NameBy(k) ==
        LET Found(element) ==
              IF element = <<>> THEN <<>>
              ELSE Likely(get_text_strip(element[1].strings))
            Checked(name) == IF name # <<>> THEN name ELSE NameBy(k + 1)
        IN  IF k > 10 THEN <<>>
            ELSE Checked(Found(find(container.nodes, name_selectors[k])))
      FirstLine(lines_) == IF lines_ # <<>> THEN Likely(lines_[1]) ELSE <<>>
      NameOf(by_selector) ==
        IF by_selector # <<>> THEN by_selector
        ELSE FirstLine(StrippedLines(get_text_strip(Strings(container.nodes))))
      \* lines 224-232: the sentences of the text, cut at ".", "!" and "?"
      RECURSIVE Sentence(_)
      Sentence(s) ==
        LET Rest(e) ==
              IF e > Len(s) THEN <<>>
              ELSE Sentence(SubSeq(s, e + 1, Len(s)))
            Taken(sentence, e) ==
              IF Len(sentence) > 20 /\ Len(sentence) < 300 THEN sentence
              ELSE Rest(e)
            Cut(e) == Taken(Strip(SubSeq(s, 1, e - 1)), e)
        IN  Cut(FindChar(s, 1, {46, 33, 63}))
      \* lines 217-222: of the desc_selectors only 'p' names a tag
      Described(desc) ==
        IF Len(desc) > 20 THEN SubSeq(desc, 1, Min(500, Len(desc)))
        ELSE Sentence(get_text_strip(Strings(container.nodes)))
      Description(element) ==
        Described(IF element = <<>> THEN <<>>
                  ELSE get_text_strip(element[1].strings))
      First(found) == IF found = <<>> THEN <<>> ELSE found[1]
      \* lines 157-173: the loop over links from index k on
      RECURSIVE Links(_, _, _)
      Links(links, k, org_data) ==
        LET Field(href) ==
              IF Contains(<<102,97,99,101,98,111,111,107>>, href)
                THEN "Facebook"
              ELSE IF \/ Contains(<<116,119,105,116,116,101,114>>, href)
                      \/ Contains(<<120,46,99,111,109>>, href)
                THEN "Twitter"
              ELSE IF Contains(<<105,110,115,116,97,103,114,97,109>>, href)
                THEN "Instagram"
              ELSE IF Contains(<<108,105,110,107,101,100,105,110>>, href)
                THEN "LinkedIn"
              ELSE IF /\ href # <<>>
                      /\ ~StartsWith(href, <<35>>)
                      /\ ~StartsWith(href,
                                     <<106,97,118,97,115,99,114,105,112,116>>)
                      /\ org_data.Website = <<>>
                THEN "Website"
              ELSE ""
        IN  IF k > Len(links) THEN org_data
            ELSE Links(links, k + 1,
                       Stored(org_data, Field(Lower(links[k].href[1])),
                              urljoin(base, links[k].href[1])))
      Image(img) ==
        IF img # <<>> /\ img[1].src # <<>> /\ img[1].src[1] # <<>>
          THEN urljoin(base, img[1].src[1])
        ELSE <<>>
      Record(name, description) ==
        [Links(find_all_href(container.nodes), 1,
               [OrganizationName |-> name,
                Categories       |-> "",
                OrgURL           |-> <<>>,
                ImageURL         |-> <<>>,
                Description      |-> description,
                Email            |->
                  First(FindAll(get_text(Strings(container.nodes)), 1,
                                email_patterns[1])),
                Phone            |->
                  FirstPhone(get_text(Strings(container.nodes)), 1),
                Website          |-> <<>>,
                LinkedIn         |-> <<>>,
                Instagram        |-> <<>>,
                Facebook         |-> <<>>,
                Twitter          |-> <<>>])
           EXCEPT !.ImageURL   = Image(find(container.nodes, "img")),
                  !.OrgURL     = base,
                  !.Categories = determine_category_91_100(name, description)]
      Named(name) ==
        IF name = <<>> THEN <<>>
        ELSE <<Record(name, Description(find(container.nodes, "p")))>>
  IN  Named(NameOf(NameBy(1)))

\* ------------------------------------------------------------------------
\* EnhancedScraper.extract_enhanced_email
\* ------------------------------------------------------------------------

\* "mailto:"
TextMailto == <<109,97,105,108,116,111,58>>

\* is_valid_email, lines 334-337 of enhanced_scraper.py: the whole of
\* email (but for one last newline) matches local+ "@" domain+ "." tld{2,}
is_valid_email(email) ==
  LET end == IF email # <<>> /\ email[Len(email)] = 10
               THEN Len(email) - 1 ELSE Len(email)
      L   == RunLen(email, 1, Chars.local)
      D   == RunLen(email, L + 2, Chars.domain)
  IN  /\ L >= 1
      /\ L + 1 <= Len(email) /\ email[L + 1] = 64
      /\ \E d \in 1..D :
           /\ L + 1 + d + 1 <= Len(email) /\ email[L + 1 + d + 1] = 46
           /\ RunLen(email, L + d + 3, Chars.tld) >= 2
           /\ L + d + 2 + RunLen(email, L + d + 3, Chars.tld) = end

\* line 182: href.replace('mailto:', '').split('?')[0]
MailtoEmail(href) ==
  LET address == Replace(href, TextMailto, <<>>)
  IN  SubSeq(address, 1, FindChar(address, 1, {63}) - 1)

\* lines 179-184: the loop over mailto_links from index k on, <<>> when it
\* returns nothing
RECURSIVE FirstMailto(_, _)
FirstMailto(mailto_links, k) ==
  IF k > Len(mailto_links) THEN <<>>
  ELSE LET href  == mailto_links[k].href[1]
           email == MailtoEmail(href)
       IN  IF StartsWith(href, TextMailto) /\ is_valid_email(email)
             THEN email
           ELSE FirstMailto(mailto_links, k + 1)

\* lines 199-204: the loop over all_emails from index k on; the generic
\* e-mails of line 203: noreply, webmaster, admin@university
RECURSIVE FirstCleaned(_, _)
FirstCleaned(all_emails, k) ==
  LET generic ==
        << <<110,111,114,101,112,108,121>>,
           <<119,101,98,109,97,115,116,101,114>>,
           <<97,100,109,105,110,64,117,110,105,118,101,114,115,105,116,121>> >>
      Valid(cleaned) ==
        IF is_valid_email(cleaned) /\ ~SeqAny(generic, Lower(cleaned))
          THEN cleaned
        ELSE FirstCleaned(all_emails, k + 1)
  IN  IF k > Len(all_emails) THEN <<>>
      ELSE Valid(Replace(Replace(Replace(all_emails[k],
                                          <<91,97,116,93>>, <<64>>),
                                 <<91,100,111,116,93>>, <<46>>),
                         <<32>>, <<>>))

\* extract_enhanced_email, lines 175-206 of enhanced_scraper.py; soup is
\* given by its nodes. Its email_patterns are those of
\* _extract_email_from_text.
extract_enhanced_email(page_text, nodes) ==
  LET mailto_links ==
        SelectSeq(nodes,
                  LAMBDA n : /\ n.tag = "a" /\ n.href # <<>>
                             /\ Contains(TextMailto, Lower(n.href[1])))
      mailto == FirstMailto(mailto_links, 1)
      all_emails == FindAll(page_text, 1, email_patterns[1])
                      \o FindAll(page_text, 1, email_patterns[2])
                      \o FindAll(page_text, 1, email_patterns[3])
  IN  IF mailto # <<>> THEN mailto ELSE FirstCleaned(all_emails, 1)

\* mutant: a number with the country code only loses the code
format_phone_country(phone) ==
  LET Canonical(d) ==
        <<40>> \o SubSeq(d, 1, 3) \o <<41, 32>> \o SubSeq(d, 4, 6)
          \o <<45>> \o SubSeq(d, 7, 10)
      Format(digits) ==
        IF Len(digits) = 10 THEN Canonical(digits)
        ELSE IF Len(digits) = 11 /\ digits[1] = 49
          THEN Tail(digits)
        ELSE phone
  IN  Format(SelectSeq(phone, LAMBDA c : c \in 48..57))

\* format_phone, lines 339-346 of enhanced_scraper.py
format_phone(phone) ==
  LET Canonical(d) ==
        <<40>> \o SubSeq(d, 1, 3) \o <<41, 32>> \o SubSeq(d, 4, 6)
          \o <<45>> \o SubSeq(d, 7, 10)
      Format(digits) ==
        IF Len(digits) = 10 THEN Canonical(digits)
        ELSE IF Len(digits) = 11 /\ digits[1] = 49
          THEN Canonical(Tail(digits))
        ELSE phone
  IN  Format(SelectSeq(phone, LAMBDA c : c \in 48..57))

\* extract_enhanced_phone, lines 208-234 of enhanced_scraper.py; soup is
\* given by its nodes. The loop over tel_links returns the first href that
\* starts with "tel:" and has 10 digits. Every match of the first of the
\* phone_patterns has 10 digits, so the first of them is returned; each
\* text the other two patterns match holds a match of the first.
extract_enhanced_phone(page_text, nodes) ==
  LET RECURSIVE FirstTel(_, _)
      FirstTel(tel_links, k) ==
        LET Phone(href, phone) ==
              IF /\ StartsWith(href, <<116,101,108,58>>)
                 /\ Len(SelectSeq(phone, LAMBDA c : c \in 48..57)) = 10
                THEN format_phone(phone)
              ELSE FirstTel(tel_links, k + 1)
            Href(href) == Phone(href, Replace(href, <<116,101,108,58>>, <<>>))
        IN  IF k > Len(tel_links) THEN <<>>
            ELSE Href(tel_links[k].href[1])
      Text(phone) == IF phone = <<>> THEN <<>> ELSE format_phone(phone)
      FirstOf(tel) ==
        IF tel # <<>> THEN tel ELSE Text(FirstPhone(page_text, 1))
  IN  FirstOf(FirstTel(
        SelectSeq(nodes,
                  LAMBDA n : /\ n.tag = "a" /\ n.href # <<>>
                             /\ Contains(<<116,101,108,58>>,
                                         Lower(n.href[1]))),
        1))

ContactFields == {"Email", "PhoneNumber", "FacebookLink"}

\* the containers _extract_organization_details reads on the pages of the
\* model: each club is described by up to three containers, which write
\* its name differently (in a h3) and hold a different contact value: the
\* text "club@bhsu.edu", the text "(605) 642-6011", or a link "facebook"
\* to "https://facebook.com/club". A container is the only child of its
\* parent.
PageContainer(k, style) ==
  Container(
    <<>>,
    <<Element("h3", Name(k, style)), TextNode(<<10>>),
      CASE style = 0 ->
             TextNode(<<99,108,117,98,64,98,104,115,117,46,101,100,117>>)
        [] style = 1 ->
             TextNode(<<40,54,48,53,41,32,54,52,50,45,54,48,49,49>>)
        [] style = 2 ->
             Link(<<104,116,116,112,115,58,47,47,102,97,99,101,98,111,111,107,46,99,111,109>>
                    \o <<47,99,108,117,98>>,
                  <<102,97,99,101,98,111,111,107>>)>>,
    <<>>)

\* a container of the navigation: <h3>Home</h3>
NavContainer ==
  Container(<<>>, <<Element("h3", TextHome), TextNode(<<10>>)>>, <<>>)

RECURSIVE SeqsUpTo(_, _)
SeqsUpTo(S, n) ==
  IF n = 0 THEN {<<>>}
  ELSE LET shorter == SeqsUpTo(S, n - 1)
       IN  shorter \cup {Append(s, x) : s \in {t \in shorter : Len(t) = n - 1}, x \in S}

\* lines 174-177, 193-195 and 208-210: the records of the containers from
\* index k on that have a name
RECURSIVE RecordsOf(_, _, _)
RecordsOf(containers, k, base) ==
  LET Kept(org) ==
        IF org # <<>> /\ org[1].OrganizationName # <<>> THEN org ELSE <<>>
  IN  IF k > Len(containers) THEN <<>>
      ELSE Kept(extract_organization_details(containers[k], base))
             \o RecordsOf(containers, k + 1, base)

\* line 163: the number of selectors
Selectors == 15

\* mutant: a selector whose containers give no record is passed over
RECURSIVE find_structured_organizations_until_records(_, _, _)
find_structured_organizations_until_records(matches, k, base) ==
  IF k > Len(matches) THEN <<>>
  ELSE IF Len(matches[k]) > 2 /\ RecordsOf(matches[k], 1, base) # <<>>
    THEN RecordsOf(matches[k], 1, base)
  ELSE find_structured_organizations_until_records(matches, k + 1, base)

\* lines 171-178: the loop over the selectors from index k on; matches[k]
\* is what soup.select gives for selector k
RECURSIVE find_structured_organizations(_, _, _)
find_structured_organizations(matches, k, base) ==
  IF k > Len(matches) THEN <<>>
  ELSE IF Len(matches[k]) > 2 THEN RecordsOf(matches[k], 1, base)
  ELSE find_structured_organizations(matches, k + 1, base)

\* the li elements of a list as containers: the parent of each is the
\* list, items[i] being the nodes of item i
RECURSIVE Flatten(_)
Flatten(items) ==
  IF items = <<>> THEN <<>> ELSE Head(items) \o Flatten(Tail(items))

ListItems(items) ==
  [i \in 1..Len(items) |->
     Container(Flatten(SubSeq(items, 1, i - 1)), items[i],
               Flatten(SubSeq(items, i + 1, Len(items))))]

\* lines 191-195: the loop over the items of one list
RECURSIVE LikelyItems(_, _)
LikelyItems(items, k) ==
  IF k > Len(items) THEN <<>>
  ELSE IF is_likely_organization_name(
            get_text_strip(Strings(items[k].nodes)))
    THEN <<items[k]>> \o LikelyItems(items, k + 1)
  ELSE LikelyItems(items, k + 1)

\* lines 188-196: the loop over the lists from index k on; lists[k] is the
\* sequence of the li containers of list k
RECURSIVE find_list_based_organizations(_, _, _)
find_list_based_organizations(lists, k, base) ==
  IF k > Len(lists) THEN <<>>
  ELSE (IF Len(lists[k]) > 3
          THEN RecordsOf(LikelyItems(lists[k], 1), 1, base)
        ELSE <<>>)
         \o find_list_based_organizations(lists, k + 1, base)

\* lines 205-210: the loop over the headings from index k on
RECURSIVE find_heading_based_organizations(_, _, _)
find_heading_based_organizations(headings, k, base) ==
  IF k > Len(headings) THEN <<>>
  ELSE (IF is_likely_organization_name(
             get_text_strip(headings[k].node.strings))
          THEN RecordsOf(<<headings[k].parent>>, 1, base)
        ELSE <<>>)
         \o find_heading_based_organizations(headings, k + 1, base)

\* the club containers of a page among containers of the navigation
Padded(containers) ==
  <<NavContainer>> \o containers \o <<NavContainer, NavContainer, NavContainer>>

\* the club containers a page can hold
ContainerLists ==
  SeqsUpTo({PageContainer(k, style) : k \in 0..MaxNameIdx, style \in 0..2},
           MaxPerStrategy)

\* the containers of the pages of a large site: club containers among
\* containers of the navigation, or club containers alone
Pages == {Padded(cs) : cs \in ContainerLists} \cup ContainerLists

\* what strategy 1 can return for a page of a large site: one selector
\* matches the containers of the page, an earlier selector matches one
\* element
StructuredResults ==
  {find_structured_organizations(
     [k \in 1..Selectors |->
        IF k = s THEN p ELSE IF k < s THEN <<NavContainer>> ELSE <<>>],
     1, base_url) :
     s \in {1, 6}, p \in Pages}

\* what strategy 2 can return for a page of a large site: the page holds
\* one list, of which the containers are the items
ListResults ==
  {find_list_based_organizations(
     <<ListItems([i \in 1..Len(p) |-> p[i].nodes])>>, 1, base_url) :
     p \in Pages}

\* what strategy 3 can return for a page of a large site: the headings
\* are the h3 of each container
HeadingResults ==
  {find_heading_based_organizations(
     [i \in 1..Len(p) |-> [node |-> p[i].nodes[1], parent |-> p[i]]],
     1, base_url) :
     p \in Pages}

\* the anchors of a page: n anchors with organization names as texts and
\* relative hrefs "/org/01", "/org/02", ..., optionally led by an anchor
\* the link filter rejects
Anchor(href, text) == [href |-> href, text |-> text]

\* "/org/" and the two digits of i
OrgPath(i) == <<47,111,114,103,47, 48 + (i \div 10), 48 + (i % 10)>>

AnchorList(n, lead) ==
  LET body == [i \in 1..n |-> Anchor(OrgPath(i), Name(i - 1, i % 3))]
  IN  CASE lead = "none"       -> body
        [] lead = "external"   ->
             <<Anchor(<<104,116,116,112,115,58,47,47,102,97,99,101,98,111,111,107,46,99,111,109>>
                        \o OrgPath(1), Name(0, 0))>> \o body
        [] lead = "navigation" ->
             <<Anchor(OrgPath(99), TextHome)>> \o body

\* the nodes of the page get_page_content(url) gives for an organization:
\* the number its URL ends with decides which contact values its text
\* holds, "org@bhsu.edu" and "605-642-6011"
PageOf(url) ==
  LET number == (url[Len(url) - 1] - 48) * 10 + (url[Len(url)] - 48)
  IN  <<Element("h1", <<79,117,114,32,112,97,103,101>>), TextNode(<<10>>)>>
        \o (IF number % 2 = 0
              THEN <<TextNode(<<111,114,103,64,98,104,115,117,46,101,100,
                                117,10>>)>>
            ELSE <<>>)
        \o (IF number % 3 = 0
              THEN <<TextNode(<<54,48,53,45,54,52,50,45,54,48,49,49,10>>)>>
            ELSE <<>>)

\* the containers given to the record builder: a name ("Biology Club" in a
\* h3 or as text, or the h3 "Home"), then optionally a mailto: link, a text
\* with an address, a text with a phone number, and a text with an address
\* in the parent after the container
DetailContainers ==
  LET biology  == <<66,105,111,108,111,103,121,32,67,108,117,98>>
      \* biology@bhsu.edu, bio@bhsu.edu, "Email us", "Write"
      address  == <<98,105,111,108,111,103,121,64,98,104,115,117,46,101,100,
                    117>>
      short    == <<98,105,111,64,98,104,115,117,46,101,100,117>>
      email_us == <<69,109,97,105,108,32,117,115>>
      write    == <<87,114,105,116,101>>
      names ==
        {<<Element("h3", biology), TextNode(<<10>>)>>,
         <<TextNode(biology \o <<10>>)>>,
         <<Element("h3", TextHome), TextNode(<<10>>)>>}
      \* <a href="mailto:biology@bhsu.edu">Email us</a>, the same link with
      \* the address as its text, one with "?subject=Hi", one with the
      \* scheme in capitals and one without an address ("mailto:none")
      mailtos ==
        {<<>>,
         <<Link(TextMailto \o address, email_us)>>,
         <<Link(TextMailto \o address, address)>>,
         <<Link(TextMailto \o short
                  \o <<63,115,117,98,106,101,99,116,61,72,105>>, write)>>,
         <<Link(<<77,65,73,76,84,79,58>> \o short, write)>>,
         <<Link(TextMailto \o <<110,111,110,101>>, write)>>}
      \* " president@bhsu.edu "
      addresses ==
        {<<>>,
         <<TextNode(<<32,112,114,101,115,105,100,101,110,116,64,98,104,115,
                      117,46,101,100,117,32>>)>>}
      \* " 605-642-6011"
      phones ==
        {<<>>, <<TextNode(<<32,54,48,53,45,54,52,50,45,54,48,49,49>>)>>}
      \* " dean@bhsu.edu"
      parents ==
        {<<>>,
         <<TextNode(<<32,100,101,97,110,64,98,104,115,117,46,101,100,117>>)>>}
      \* <h3>Biology Club</h3> and a line break, which the containers below
      \* start with
      club == <<Element("h3", biology), TextNode(<<10>>)>>
      \* the forms of a phone number in the text of a container:
      \* " 605-642-6011", " (605) 642-6011", " 605.642.6011",
      \* " 605 642 6011", " 6056426011"
      forms ==
        {<<>>,
         <<TextNode(<<32,54,48,53,45,54,52,50,45,54,48,49,49>>)>>,
         <<TextNode(<<32,40,54,48,53,41,32,54,52,50,45,54,48,49,49>>)>>,
         <<TextNode(<<32,54,48,53,46,54,52,50,46,54,48,49,49>>)>>,
         <<TextNode(<<32,54,48,53,32,54,52,50,32,54,48,49,49>>)>>,
         <<TextNode(<<32,54,48,53,54,52,50,54,48,49,49>>)>>}
      \* the text of the parent before the container: "club@bhsu.edu ",
      \* "605-555-0100 ", or both
      around ==
        {<<>>,
         <<TextNode(<<99,108,117,98,64,98,104,115,117,46,101,100,117,32>>)>>,
         <<TextNode(<<54,48,53,45,53,53,53,45,48,49,48,48,32>>)>>,
         <<TextNode(<<99,108,117,98,64,98,104,115,117,46,101,100,117,32,54,48,53,45,53,53,53,45,48,49,48,48,32>>)>>}
      \* the hrefs of the links of a container:
      \* "https://facebook.com/bio", "https://facebook.com/biology",
      \* "/facebook-events", "https://twitter.com/bio", "#top",
      \* "/clubs/biology"
      hrefs ==
        {<<104,116,116,112,115,58,47,47,102,97,99,101,98,111,111,107,46,99,111,109,47,98,105,111>>,
         <<104,116,116,112,115,58,47,47,102,97,99,101,98,111,111,107,46,99,111,109,47,98,105,111,108,111,103,121>>,
         <<47,102,97,99,101,98,111,111,107,45,101,118,101,110,116,115>>,
         <<104,116,116,112,115,58,47,47,116,119,105,116,116,101,114,46,99,111,109,47,98,105,111>>,
         <<35,116,111,112>>,
         <<47,99,108,117,98,115,47,98,105,111,108,111,103,121>>}
      links ==
        UNION {[1..n -> {Link(h, <<>>) : h \in hrefs}] : n \in 0..MaxLinks}
      \* a link of the parent after the container: "/clubs",
      \* "https://facebook.com/bhsu"
      beside ==
        {<<>>,
         <<Link(<<47,99,108,117,98,115>>, <<>>)>>,
         <<Link(<<104,116,116,112,115,58,47,47,102,97,99,101,98,111,111,107,46,99,111,109,47,98,104,115,117>>, <<>>)>>}
      \* <p> elements with texts of "aa aaaa aaaa ..." of the lengths
      \* around the limits of lines 393-401 and 489-494, and with
      \* "Contact us for more information"
      paragraphs ==
        {<<>>,
         <<Element("p", <<67,111,110,116,97,99,116,32,117,115,32,102,111,114,32,109,111,114,101,32,105,110,102,111,114,109,97,116,105,111,110>>)>>}
          \cup {<<Element("p", [i \in 1..n |->
                                   IF i % 5 = 3 THEN 32 ELSE 97])>> :
                  n \in {20, 21, 800, 801, 999, 1000, 1001}}
      \* <img src="/logo.png">
      images ==
        {<<>>, <<Node("img", <<>>, <<>>, <<<<47,108,111,103,111,46,112,110,103>>>>)>>}
      \* <a href="tel:6056426011">, <a href="tel:+16056426011">,
      \* <a href="TEL:6056426011">, <a href="tel:605-642-6011">
      tels ==
        {<<>>,
         <<Link(<<116,101,108,58,54,48,53,54,52,50,54,48,49,49>>, <<>>)>>,
         <<Link(<<116,101,108,58,43,49,54,48,53,54,52,50,54,48,49,49>>, <<>>)>>,
         <<Link(<<84,69,76,58,54,48,53,54,52,50,54,48,49,49>>, <<>>)>>,
         <<Link(<<116,101,108,58,54,48,53,45,54,52,50,45,54,48,49,49>>, <<>>)>>}
  IN  {Container(<<>>, n \o m \o a \o p, after) :
         n \in names, m \in mailtos, a \in addresses, p \in phones,
         after \in parents}
        \cup {Container(before, club \o a \o f, <<>>) :
                before \in around, a \in addresses, f \in forms}
        \cup {Container(<<>>, club \o l, after) :
                l \in links, after \in beside}
        \cup {Container(<<>>, n \o d \o g, <<>>) :
                n \in names, d \in paragraphs, g \in images}
        \cup {Container(<<>>, club \o l \o f, <<>>) :
                l \in tels, f \in forms}

\* ------------------------------------------------------------------------
\* State
\* ------------------------------------------------------------------------

VARIABLES
  pc,                   \* position in the code
  site,                 \* the pages the site serves: "large", "small", "list"
  expected_count,       \* argument of extract_organizations_from_page
  organizations,        \* extract_organizations_from_page: organizations
  seen_names,           \* extract_organizations_from_page: seen_names
  unique_organizations, \* extract_organizations_from_page: unique_organizations
  anchors,              \* soup.find_all('a', href=True) of the page
  org_links,            \* _find_linked_organizations: org_links
  linkIdx,              \* index of the loop over org_links[:20]
  linked_orgs,          \* _find_linked_organizations: organizations
  lines,                \* _extract_from_general_content: lines
  invoked,              \* history: the cascade steps that were invoked
  fetchLog,             \* history: URLs fetched by the running strategy 4
  outcomes,             \* history: what each of those fetches gave
  lastNet,              \* history: the last of "fetch" and "sleep" to occur
  fetches,              \* history: number of page fetches so far
  universities,         \* self.universities: the expected_count of each
  uni,                  \* run_comprehensive_scraping: index of the university
  results,              \* run_comprehensive_scraping: results
  soup,                 \* scrape_university: soup, "None" after a failed fetch
  raised,               \* history: universities whose processing raised
  failed,               \* history: universities whose page fetch gave None
  visited,              \* history: universities the loop has come to
  candidate,            \* _is_likely_organization_name: text
  likely,               \* what it returned: "True", "False"; "unset" before
  category_name,             \* _determine_category: name
  category_description,      \* _determine_category: description
  scraper,              \* the class whose _determine_category was called
  category,             \* what _determine_category returned; "unset" before
  candidate_container,  \* _extract_organization_details: container
  details,              \* what it returned: <<>> for {}, <<org_data>>
  enhanced_email,       \* what extract_enhanced_email returned
  enhanced_phone,       \* what extract_enhanced_phone returned
  formats,              \* format_phone: its argument, then what each call
                        \* on the last of them returned
  page,                 \* the page a strategy is called on: what each
                        \* selector matches, and its headings
  doc                   \* the document of a site "list": its list items

vars == <<pc, site, expected_count, organizations, seen_names,
          unique_organizations, anchors, org_links, linkIdx, linked_orgs,
          lines, invoked, fetchLog, outcomes, lastNet, fetches,
          universities, uni, results, soup, raised, failed, visited,
          candidate, likely, category_name, category_description, scraper,
          category, candidate_container, details, enhanced_email,
          enhanced_phone, formats, page, doc>>

extractVars == <<expected_count, organizations, seen_names,
                 unique_organizations, lines, invoked>>

linkedVars == <<anchors, org_links, linkIdx, linked_orgs, fetchLog, outcomes>>

runVars == <<universities, uni, results, soup, raised, failed, visited>>

pureVars == <<candidate, likely, category_name, category_description, scraper,
              category, candidate_container, details, enhanced_email,
              enhanced_phone, formats, page>>

\* ------------------------------------------------------------------------
\* _find_linked_organizations
\* ------------------------------------------------------------------------

\* the limit of the slice org_links[:20]
MaxFollowedLinks == 20

\* the first loop: the anchors kept as (full_url, link_text)
RECURSIVE OrgLinks(_)
OrgLinks(as) ==
  IF as = <<>> THEN <<>>
  ELSE LET link == Head(as)
       IN  IF is_external_link(link.href, base_url)
              \/ ~is_likely_organization_name(link.text)
           THEN OrgLinks(Tail(as))
           ELSE <<[url |-> urljoin(base_url, link.href), name |-> link.text]>>
                  \o OrgLinks(Tail(as))

\* mutant: the slice [:20] is missing
FollowedLinksAll(links) == links

\* org_links[:20]
FollowedLinks(links) == SubSeq(links, 1, Min(MaxFollowedLinks, Len(links)))

\* lines 408-424: the loop over all_links from index k on
RECURSIVE SocialLoop(_, _, _, _)
SocialLoop(all_links, k, org_data, org_url) ==
  IF k > Len(all_links) THEN org_data
  ELSE SocialLoop(all_links, k + 1,
                  Stored(org_data,
                         SocialField(Lower(all_links[k].href[1]), org_data),
                         urljoin(org_url, all_links[k].href[1])),
                  org_url)

\* _extract_detailed_organization_info, lines 375-438, of a page given by
\* its nodes. No element of the model has a class, so of desc_selectors
\* and img_selectors only 'p' and 'img' select an element, the first p and
\* the first img.
extract_detailed_organization_info(org_soup, org_url, org_name) ==
  LET Desc(desc_elem) ==
        IF desc_elem = <<>> THEN <<>>
        ELSE get_text_strip(desc_elem[1].strings)
      Description(desc) == IF Len(desc) > 20 THEN SubSeq(desc, 1, Min(1000, Len(desc))) ELSE <<>>
      Logo(img) ==
        IF img # <<>> /\ img[1].src # <<>> /\ img[1].src[1] # <<>>
          THEN urljoin(org_url, img[1].src[1])
        ELSE <<>>
      Record(description, page_text) ==
        [SocialLoop(find_all_href(org_soup), 1,
                    [org_data_empty EXCEPT
                       !.OrganizationName = org_name,
                       !.OrganizationLink = org_url,
                       !.Description      = description,
                       !.Email       = extract_email_from_text(page_text),
                       !.PhoneNumber = extract_phone_from_text(page_text)],
                    org_url)
           EXCEPT
             !.LogoLink = Logo(find(org_soup, "img")),
             !.Category = determine_category(org_name, description)]
  IN  Record(Description(Desc(find(org_soup, "p"))),
             get_text(Strings(org_soup)))

\* lines 216-231
FindLinkedScan ==
  /\ pc = "linked_scan"
  /\ org_links' = OrgLinks(anchors)
  /\ linked_orgs' = <<>>
  /\ linkIdx' = 1
  /\ fetchLog' = <<>>
  /\ outcomes' = <<>>
  /\ pc' = "linked_loop"
  /\ UNCHANGED <<site, doc, anchors, lastNet, fetches>>
  /\ UNCHANGED extractVars
  /\ UNCHANGED runVars
  /\ UNCHANGED pureVars

\* line 236: time.sleep(1) of the next iteration
LinkedSleep ==
  /\ pc = "linked_loop"
  /\ linkIdx <= Len(FollowedLinks(org_links))
  /\ lastNet' = "sleep"
  /\ pc' = "linked_fetch"
  /\ UNCHANGED <<site, doc, fetches>>
  /\ UNCHANGED linkedVars
  /\ UNCHANGED extractVars
  /\ UNCHANGED runVars
  /\ UNCHANGED pureVars

\* mutant: a fetch that gives no page ends the loop
LinkedFetchBreak ==
  /\ pc = "linked_fetch"
  /\ \E outcome \in {"page", "none", "exception"} :
       LET link == FollowedLinks(org_links)[linkIdx]
       IN  /\ outcome # "page" =>
                Cardinality({i \in 1..Len(outcomes) :
                               outcomes[i] # "page"}) < MaxFailures
           /\ fetchLog' = Append(fetchLog, link.url)
           /\ outcomes' = Append(outcomes, outcome)
           /\ linked_orgs' =
                IF outcome = "page"
                  THEN Append(linked_orgs,
                              extract_detailed_organization_info(
                                PageOf(link.url), link.url, link.name))
                  ELSE linked_orgs
           /\ linkIdx' =
                IF outcome = "page"
                  THEN linkIdx + 1
                  ELSE Len(FollowedLinks(org_links)) + 1
  /\ lastNet' = "fetch"
  /\ fetches' = fetches + 1
  /\ pc' = "linked_loop"
  /\ UNCHANGED <<site, doc, anchors, org_links>>
  /\ UNCHANGED extractVars
  /\ UNCHANGED runVars
  /\ UNCHANGED pureVars

\* lines 237-244: get_page_content and the handling of what it gives
LinkedFetch ==
  /\ pc = "linked_fetch"
  /\ \E outcome \in {"page", "none", "exception"} :
       LET link == FollowedLinks(org_links)[linkIdx]
       IN  /\ outcome # "page" =>
                Cardinality({i \in 1..Len(outcomes) :
                               outcomes[i] # "page"}) < MaxFailures
           /\ fetchLog' = Append(fetchLog, link.url)
           /\ outcomes' = Append(outcomes, outcome)
           /\ linked_orgs' =
                IF outcome = "page"
                  THEN Append(linked_orgs,
                              extract_detailed_organization_info(
                                PageOf(link.url), link.url, link.name))
                  ELSE linked_orgs
  /\ lastNet' = "fetch"
  /\ fetches' = fetches + 1
  /\ linkIdx' = linkIdx + 1
  /\ pc' = "linked_loop"
  /\ UNCHANGED <<site, doc, anchors, org_links>>
  /\ UNCHANGED extractVars
  /\ UNCHANGED runVars
  /\ UNCHANGED pureVars

\* line 246: return organizations
LinkedReturn ==
  /\ pc = "linked_loop"
  /\ linkIdx > Len(FollowedLinks(org_links))
  /\ pc' = "linked_returned"
  /\ UNCHANGED <<site, doc, lastNet, fetches>>
  /\ UNCHANGED linkedVars
  /\ UNCHANGED extractVars
  /\ UNCHANGED runVars
  /\ UNCHANGED pureVars

LinkedNext == FindLinkedScan \/ LinkedSleep \/ LinkedFetch \/ LinkedReturn

\* ------------------------------------------------------------------------
\* extract_organizations_from_page
\* ------------------------------------------------------------------------

NoDocument == [items |-> <<>>, separator |-> <<>>]

\* the nodes of item i of the list and of the text that follows it
ItemNodes(d, i) ==
  <<TextNode(d.items[i])>>
    \o (IF d.separator = <<>> THEN <<>> ELSE <<TextNode(d.separator)>>)

\* ul.find_all('li'): the li elements as containers, the parent of each
\* being the list
DocumentItems(d) ==
  LET all == [j \in 1..Len(d.items) |-> ItemNodes(d, j)]
  IN  [i \in 1..Len(d.items) |->
         Container(Flatten(SubSeq(all, 1, i - 1)),
                   <<TextNode(d.items[i])>>,
                   Tail(all[i]) \o Flatten(SubSeq(all, i + 1, Len(all))))]

\* soup.get_text() of the document
DocumentText(d) ==
  get_text(Strings(Flatten([j \in 1..Len(d.items) |-> ItemNodes(d, j)])))

\* the documents of the model: lists of 3 to MaxItems different items out
\* of Chess Club, Home, Drama Society, Robotics Team and Math Club, the
\* list Chess Club, Home, Drama Society, Contact, Robotics Team and a list
\* that holds Chess Club twice; pretty-printed and minified
Documents ==
  LET chess    == <<67,104,101,115,115,32,67,108,117,98>>
      drama    == <<68,114,97,109,97,32,83,111,99,105,101,116,121>>
      robotics == <<82,111,98,111,116,105,99,115,32,84,101,97,109>>
      math     == <<77,97,116,104,32,67,108,117,98>>
      contact  == <<67,111,110,116,97,99,116>>
  IN  {[items |-> items, separator |-> separator] :
         items \in {l \in SeqsUpTo({chess, TextHome, drama, robotics, math},
                                   MaxItems) :
                      /\ Len(l) >= 3
                      /\ \A i, j \in 1..Len(l) : l[i] = l[j] => i = j}
                     \cup {<<chess, TextHome, drama, contact, robotics>>,
                           <<chess, chess, drama, math>>},
         separator \in {<<10>>, <<>>}}

\* what a strategy can return on the pages of a small site: at most one
\* record, "Club 00" with an email or "club 00" with a phone
SmallResults ==
  {find_heading_based_organizations(
     [i \in 1..Len(Padded(cs)) |->
        [node |-> Padded(cs)[i].nodes[1], parent |-> Padded(cs)[i]]],
     1, base_url) :
     cs \in {<<>>, <<PageContainer(0, 0)>>, <<PageContainer(0, 1)>>}}

\* the non-empty stripped text lines of a page: n organization names, of
\* which every p-th repeats, optionally led by a navigation line
LineList(n, p, nav) ==
  (IF nav THEN <<TextHome>> ELSE <<>>)
    \o [i \in 1..n |-> Name((i - 1) % p, i % 3)]

\* the conditions of the cascade (lines 123, 128, 133, 147): in Python
\* len(...) < expected_count * 0.5 and len(...) < expected_count * 0.3, which
\* for integers in floating point are 2 * len < expected_count and
\* 10 * len < 3 * expected_count
\* mutant: the level itself still counts as "not enough"
NeedListStrategyInclusive(len, expected) == 2 * len <= expected

NeedListStrategy(len, expected) == 2 * len < expected

NeedHeadingStrategy(len, expected) == 2 * len < expected

\* mutant: strategy 4 runs below 70% of expected_count
NeedLinkedStrategySeventy(len, expected) == 10 * len < 7 * expected

NeedLinkedStrategy(len, expected) == 10 * len < 3 * expected

\* mutant: the fallback runs below 50% of expected_count
NeedGeneralContentHalf(len, expected) == 2 * len < expected

NeedGeneralContent(len, expected) == 10 * len < 3 * expected

\* org.get('Organization Name', '').strip().lower()
NormalizedName(org) == Lower(Strip(org.OrganizationName))

\* mutant: names are compared without lower()
RECURSIVE AddUniqueCaseSensitive(_, _, _)
AddUniqueCaseSensitive(orgs, seen, unique) ==
  IF orgs = <<>> THEN [seen |-> seen, unique |-> unique]
  ELSE LET org  == Head(orgs)
           name == Strip(org.OrganizationName)
       IN  IF name # <<>> /\ name \notin seen
             THEN AddUniqueCaseSensitive(Tail(orgs), seen \cup {name}, Append(unique, org))
             ELSE AddUniqueCaseSensitive(Tail(orgs), seen, unique)

\* mutant: a record whose name was seen fills the empty contact fields of
\* the record kept for that name
FillEmpty(kept, org) ==
  [kept EXCEPT !.Email        = IF @ = <<>> THEN org.Email ELSE @,
               !.PhoneNumber  = IF @ = <<>> THEN org.PhoneNumber ELSE @,
               !.FacebookLink = IF @ = <<>> THEN org.FacebookLink ELSE @]

RECURSIVE AddUniqueMerging(_, _, _)
AddUniqueMerging(orgs, seen, unique) ==
  IF orgs = <<>> THEN [seen |-> seen, unique |-> unique]
  ELSE LET org  == Head(orgs)
           name == NormalizedName(org)
       IN  IF name # <<>> /\ name \notin seen
             THEN AddUniqueMerging(Tail(orgs), seen \cup {name}, Append(unique, org))
             ELSE AddUniqueMerging(Tail(orgs), seen,
                    [k \in 1..Len(unique) |->
                       IF NormalizedName(unique[k]) = name
                         THEN FillEmpty(unique[k], org)
                         ELSE unique[k]])

\* mutant: duplicates are removed from the list while it is iterated, so
\* the record after a removed one is never examined
RECURSIVE AddUniqueSkipNext(_, _, _)
AddUniqueSkipNext(orgs, seen, unique) ==
  IF orgs = <<>> THEN [seen |-> seen, unique |-> unique]
  ELSE LET org  == Head(orgs)
           name == NormalizedName(org)
           rest == Tail(orgs)
       IN  IF name # <<>> /\ name \notin seen
             THEN AddUniqueSkipNext(rest, seen \cup {name}, Append(unique, org))
             ELSE IF rest = <<>>
                    THEN [seen |-> seen, unique |-> unique]
                    ELSE AddUniqueSkipNext(Tail(rest), seen, Append(unique, Head(rest)))

\* the loop of lines 140-144 and of lines 149-153: every record of orgs
\* whose name is non-empty and not seen is appended and its name recorded
RECURSIVE AddUnique(_, _, _)
AddUnique(orgs, seen, unique) ==
  IF orgs = <<>> THEN [seen |-> seen, unique |-> unique]
  ELSE LET org  == Head(orgs)
           name == NormalizedName(org)
       IN  IF name # <<>> /\ name \notin seen
             THEN AddUnique(Tail(orgs), seen \cup {name}, Append(unique, org))
             ELSE AddUnique(Tail(orgs), seen, unique)

\* lines 258-272: the record of a line
GeneralOrg(line) ==
  [org_data_empty EXCEPT
     !.Category         = determine_category(line, <<>>),
     !.OrganizationName = line,
     !.OrganizationLink = base_url]

\* the limit of the slice organizations[:50]
MaxGeneralOrgs == 50

\* mutant: the slice [:50] is missing
extract_from_general_content_unsliced(text_lines) ==
  LET kept == SelectSeq(text_lines,
                LAMBDA line : is_likely_organization_name(line) /\ Len(line) < 150)
  IN  [i \in 1..Len(kept) |-> GeneralOrg(kept[i])]

\* _extract_from_general_content
extract_from_general_content(text_lines) ==
  LET kept == SelectSeq(text_lines,
                LAMBDA line : is_likely_organization_name(line) /\ Len(line) < 150)
      orgs == [i \in 1..Len(kept) |-> GeneralOrg(kept[i])]
  IN  SubSeq(orgs, 1, Min(MaxGeneralOrgs, Len(orgs)))

\* the page texts of the model, each with what
\* _extract_from_general_content returns for it
PageTexts(params) ==
  {[lines |-> LineList(c[1], c[2], c[3]),
    orgs  |-> extract_from_general_content(LineList(c[1], c[2], c[3]))] :
     c \in params}

\* the page texts tried on a large site: short ones, with repeating names
\* or a navigation line, and long ones around the limit of the slice
\* organizations[:50]
LargeTexts ==
  PageTexts({<<n, p, nav>> :
               n \in 0..2, p \in {MaxNameIdx + 1, 100}, nav \in BOOLEAN}
              \cup {<<n, 100, FALSE>> : n \in 49..MaxLines})

\* the page texts of a small site: no line or one name
SmallTexts == PageTexts({<<n, 100, FALSE>> : n \in 0..1})

\* lines 117-120: strategy 1
Strategy1 ==
  /\ pc = "strategy1"
  /\ \E orgs \in
          IF site = "list"
            THEN {find_structured_organizations(
                    [k \in 1..Selectors |-> <<>>], 1, base_url)}
          ELSE IF site = "large" THEN StructuredResults ELSE SmallResults :
       organizations' = organizations \o orgs
  /\ invoked' = invoked \cup {1}
  /\ pc' = "strategy2"
  /\ UNCHANGED <<site, doc, expected_count, seen_names, unique_organizations, lines,
                 lastNet, fetches>>
  /\ UNCHANGED linkedVars
  /\ UNCHANGED runVars
  /\ UNCHANGED pureVars

\* lines 122-125: strategy 2
Strategy2 ==
  /\ pc = "strategy2"
  /\ IF NeedListStrategy(Len(organizations), expected_count)
       THEN /\ \E list_orgs \in
                    IF site = "list"
                      THEN {find_list_based_organizations(
                              <<DocumentItems(doc)>>, 1, base_url)}
                    ELSE IF site = "large" THEN ListResults
                    ELSE SmallResults :
                 organizations' = organizations \o list_orgs
            /\ invoked' = invoked \cup {2}
       ELSE UNCHANGED <<organizations, invoked>>
  /\ pc' = "strategy3"
  /\ UNCHANGED <<site, doc, expected_count, seen_names, unique_organizations, lines,
                 lastNet, fetches>>
  /\ UNCHANGED linkedVars
  /\ UNCHANGED runVars
  /\ UNCHANGED pureVars

\* lines 127-130: strategy 3
Strategy3 ==
  /\ pc = "strategy3"
  /\ IF NeedHeadingStrategy(Len(organizations), expected_count)
       THEN /\ \E heading_orgs \in
                    IF site = "list"
                      THEN {find_heading_based_organizations(<<>>, 1,
                                                             base_url)}
                    ELSE IF site = "large" THEN HeadingResults
                    ELSE SmallResults :
                 organizations' = organizations \o heading_orgs
            /\ invoked' = invoked \cup {3}
       ELSE UNCHANGED <<organizations, invoked>>
  /\ pc' = "strategy4"
  /\ UNCHANGED <<site, doc, expected_count, seen_names, unique_organizations, lines,
                 lastNet, fetches>>
  /\ UNCHANGED linkedVars
  /\ UNCHANGED runVars
  /\ UNCHANGED pureVars

\* lines 132-134: strategy 4 is called, or passed over
Strategy4 ==
  /\ pc = "strategy4"
  /\ IF NeedLinkedStrategy(Len(organizations), expected_count)
       THEN /\ \E as \in
                    IF site = "list" THEN {<<>>}
                    ELSE IF site = "large"
                      THEN {AnchorList(n, lead) :
                              n \in 0..MaxPageAnchors,
                              lead \in {"none", "external", "navigation"}}
                    ELSE {AnchorList(n, "none") : n \in 0..1} :
                 anchors' = as
            /\ invoked' = invoked \cup {4}
            /\ pc' = "linked_scan"
       ELSE /\ UNCHANGED <<anchors, invoked>>
            /\ pc' = "remove_duplicates"
  /\ UNCHANGED <<site, doc, expected_count, organizations, seen_names,
                 unique_organizations, lines, lastNet, fetches>>
  /\ UNCHANGED <<org_links, linkIdx, linked_orgs, fetchLog, outcomes>>
  /\ UNCHANGED runVars
  /\ UNCHANGED pureVars

\* line 135: organizations.extend(linked_orgs); the locals of the returned
\* call are gone
Strategy4Extend ==
  /\ pc = "linked_returned"
  /\ organizations' = organizations \o linked_orgs
  /\ anchors' = <<>>
  /\ org_links' = <<>>
  /\ linkIdx' = 1
  /\ linked_orgs' = <<>>
  /\ fetchLog' = <<>>
  /\ outcomes' = <<>>
  /\ pc' = "remove_duplicates"
  /\ UNCHANGED <<site, doc, expected_count, seen_names, unique_organizations, lines,
                 invoked, lastNet, fetches>>
  /\ UNCHANGED runVars
  /\ UNCHANGED pureVars

\* lines 137-144: remove duplicates based on organization name
RemoveDuplicates ==
  /\ pc = "remove_duplicates"
  /\ LET r == AddUnique(organizations, {}, <<>>)
     IN  /\ seen_names' = r.seen
         /\ unique_organizations' = r.unique
  /\ pc' = "general_content"
  /\ UNCHANGED <<site, doc, expected_count, organizations, lines, invoked, lastNet,
                 fetches>>
  /\ UNCHANGED linkedVars
  /\ UNCHANGED runVars
  /\ UNCHANGED pureVars

\* lines 146-156: the raw-text fallback, and the return
GeneralContent ==
  /\ pc = "general_content"
  /\ IF NeedGeneralContent(Len(unique_organizations), expected_count)
       THEN \E text \in
                 IF site = "list"
                   THEN {[lines |-> StrippedLines(DocumentText(doc)),
                          orgs  |-> extract_from_general_content(
                                      StrippedLines(DocumentText(doc)))]}
                 ELSE IF site = "large" THEN LargeTexts ELSE SmallTexts :
              LET general_orgs == text.orgs
                  r == AddUnique(general_orgs, seen_names, unique_organizations)
              IN  /\ lines' = text.lines
                  /\ seen_names' = r.seen
                  /\ unique_organizations' = r.unique
                  /\ invoked' = invoked \cup {5}
       ELSE UNCHANGED <<lines, seen_names, unique_organizations, invoked>>
  /\ pc' = "extracted"
  /\ UNCHANGED <<site, doc, expected_count, organizations, lastNet, fetches>>
  /\ UNCHANGED linkedVars
  /\ UNCHANGED runVars
  /\ UNCHANGED pureVars

\* the steps of extract_organizations_from_page on a document without
\* anchors: no page is fetched
ListNext ==
  \/ Strategy1
  \/ Strategy2
  \/ Strategy3
  \/ Strategy4
  \/ FindLinkedScan
  \/ LinkedReturn
  \/ Strategy4Extend
  \/ RemoveDuplicates
  \/ GeneralContent

ExtractNext ==
  \/ Strategy1
  \/ Strategy2
  \/ Strategy3
  \/ Strategy4
  \/ LinkedNext
  \/ Strategy4Extend
  \/ RemoveDuplicates
  \/ GeneralContent

\* ------------------------------------------------------------------------
\* scrape_university and run_comprehensive_scraping
\* ------------------------------------------------------------------------

\* the expected_count None of a university
None == -1

\* line 665: expected_count or 10
OrTen(expected) == IF expected = None \/ expected = 0 THEN 10 ELSE expected

\* lines 715-723: the loop reaches a university whose expected_count is None
RunSkip ==
  /\ pc = "run_loop"
  /\ uni <= Len(universities)
  /\ universities[uni] = None
  /\ visited' = visited \cup {uni}
  /\ uni' = uni + 1
  /\ UNCHANGED <<pc, site, doc, lastNet, fetches, universities, results, soup,
                 raised, failed>>
  /\ UNCHANGED extractVars
  /\ UNCHANGED linkedVars
  /\ UNCHANGED pureVars

\* lines 715-725 without the test of line 721
RunScrapeNone ==
  /\ pc = "run_loop"
  /\ uni <= Len(universities)
  /\ visited' = visited \cup {uni}
  /\ pc' = "scrape_university"
  /\ UNCHANGED <<site, doc, lastNet, fetches>>
  /\ UNCHANGED extractVars
  /\ UNCHANGED linkedVars
  /\ UNCHANGED <<universities, uni, results, soup, raised, failed>>
  /\ UNCHANGED pureVars

\* lines 715-725: the loop reaches a university to scrape
RunScrape ==
  /\ pc = "run_loop"
  /\ uni <= Len(universities)
  /\ universities[uni] # None
  /\ visited' = visited \cup {uni}
  /\ pc' = "scrape_university"
  /\ UNCHANGED <<site, doc, lastNet, fetches>>
  /\ UNCHANGED extractVars
  /\ UNCHANGED linkedVars
  /\ UNCHANGED <<universities, uni, results, soup, raised, failed>>
  /\ UNCHANGED pureVars

\* lines 660-665 with a failed fetch ending the loop of the run
ScrapeFetchAbort ==
  /\ pc = "scrape_university"
  /\ lastNet' = "fetch"
  /\ fetches' = fetches + 1
  /\ organizations' = <<>>
  /\ seen_names' = {}
  /\ unique_organizations' = <<>>
  /\ lines' = <<>>
  /\ invoked' = {}
  /\ \E outcome \in {"page", "none"} :
       IF outcome = "page"
         THEN /\ soup' = "page"
              /\ expected_count' = OrTen(universities[uni])
              /\ pc' = "strategy1"
              /\ UNCHANGED <<uni, failed>>
         ELSE /\ soup' = "None"
              /\ failed' = failed \cup {uni}
              /\ UNCHANGED expected_count
              /\ uni' = Len(universities) + 1
              /\ pc' = "run_loop"
  /\ UNCHANGED <<site, doc>>
  /\ UNCHANGED linkedVars
  /\ UNCHANGED <<universities, results, raised, visited>>
  /\ UNCHANGED pureVars

\* lines 660-665: get_page_content of the university's page; a page is
\* handed to extract_organizations_from_page, without one [] is returned
ScrapeFetch ==
  /\ pc = "scrape_university"
  /\ lastNet' = "fetch"
  /\ fetches' = fetches + 1
  /\ organizations' = <<>>
  /\ seen_names' = {}
  /\ unique_organizations' = <<>>
  /\ lines' = <<>>
  /\ invoked' = {}
  /\ \E outcome \in {"page", "none"} :
       IF outcome = "page"
         THEN /\ soup' = "page"
              /\ expected_count' = OrTen(universities[uni])
              /\ pc' = "strategy1"
              /\ UNCHANGED failed
         ELSE /\ soup' = "None"
              /\ failed' = failed \cup {uni}
              /\ UNCHANGED expected_count
              /\ pc' = "run_save"
  /\ UNCHANGED <<site, doc>>
  /\ UNCHANGED linkedVars
  /\ UNCHANGED <<universities, uni, results, raised, visited>>
  /\ UNCHANGED pureVars

\* an exception inside strategies 1-3 (urljoin in
\* _extract_organization_details raises ValueError on a malformed href)
\* leaves extract_organizations_from_page and scrape_university and is
\* caught by lines 738-740
ExtractRaises ==
  /\ pc \in {"strategy1", "strategy2", "strategy3"}
  /\ raised' = raised \cup {uni}
  /\ uni' = uni + 1
  /\ pc' = "run_loop"
  /\ UNCHANGED <<site, doc, lastNet, fetches, universities, results, soup,
                 failed, visited>>
  /\ UNCHANGED extractVars
  /\ UNCHANGED linkedVars
  /\ UNCHANGED pureVars

\* lines 156, 667-668: the records are returned to the loop
ScrapeReturn ==
  /\ pc = "extracted"
  /\ pc' = "run_save"
  /\ UNCHANGED <<site, doc, lastNet, fetches>>
  /\ UNCHANGED extractVars
  /\ UNCHANGED linkedVars
  /\ UNCHANGED runVars
  /\ UNCHANGED pureVars

\* lines 727-733: a non-empty list is saved and recorded; an exception of
\* save_university_excel is caught by lines 738-740
RunSave ==
  /\ pc = "run_save"
  /\ IF unique_organizations # <<>>
       THEN \E saved \in BOOLEAN :
              IF saved
                THEN /\ results' = results \cup
                           {[university    |-> uni,
                             organizations |-> Len(unique_organizations),
                             expected      |-> universities[uni]]}
                     /\ pc' = "run_sleep"
                     /\ UNCHANGED <<uni, raised>>
                ELSE /\ raised' = raised \cup {uni}
                     /\ uni' = uni + 1
                     /\ pc' = "run_loop"
                     /\ UNCHANGED results
       ELSE /\ pc' = "run_sleep"
            /\ UNCHANGED <<uni, results, raised>>
  /\ UNCHANGED <<site, doc, lastNet, fetches, universities, soup, failed,
                 visited>>
  /\ UNCHANGED extractVars
  /\ UNCHANGED linkedVars
  /\ UNCHANGED pureVars

\* line 736: time.sleep(3)
RunSleep ==
  /\ pc = "run_sleep"
  /\ lastNet' = "sleep"
  /\ uni' = uni + 1
  /\ pc' = "run_loop"
  /\ UNCHANGED <<site, doc, fetches, universities, results, soup, raised,
                 failed, visited>>
  /\ UNCHANGED extractVars
  /\ UNCHANGED linkedVars
  /\ UNCHANGED pureVars

RECURSIVE SumOf(_, _)
SumOf(rs, field) ==
  IF rs = {} THEN 0
  ELSE LET r == CHOOSE x \in rs : TRUE
       IN  r[field] + SumOf(rs \ {r}, field)

\* lines 742-763: the summary divides by each expected count and by their
\* total, then results is returned
RunSummary ==
  /\ pc = "run_loop"
  /\ uni > Len(universities)
  /\ pc' = IF (\E r \in results : r.expected = 0) \/ SumOf(results, "expected") = 0
             THEN "run_raised"
             ELSE "run_returned"
  /\ UNCHANGED <<site, doc, lastNet, fetches>>
  /\ UNCHANGED extractVars
  /\ UNCHANGED linkedVars
  /\ UNCHANGED runVars
  /\ UNCHANGED pureVars

RunNext ==
  \/ RunSkip
  \/ RunScrape
  \/ ScrapeFetch
  \/ ExtractRaises
  \/ ExtractNext
  \/ ScrapeReturn
  \/ RunSave
  \/ RunSleep
  \/ RunSummary

\* ------------------------------------------------------------------------
\* calls of the pure functions
\* ------------------------------------------------------------------------

\* _is_likely_organization_name(candidate) is called and returns
NameCall ==
  /\ pc = "name_call"
  /\ likely' = IF is_likely_organization_name(candidate)
                 THEN "True" ELSE "False"
  /\ pc' = "name_returned"
  /\ UNCHANGED <<site, doc, lastNet, fetches, candidate>>
  /\ UNCHANGED <<category_name, category_description, scraper, category>>
  /\ UNCHANGED extractVars
  /\ UNCHANGED linkedVars
  /\ UNCHANGED runVars
  /\ UNCHANGED <<candidate_container, details, enhanced_email,
                 enhanced_phone, formats, page>>

\* ComprehensiveUniversityScraper._determine_category(category_name,
\* category_description) is called and returns
CategoryCall ==
  /\ pc = "category_call"
  /\ scraper' = "ComprehensiveUniversityScraper"
  /\ category' = determine_category(category_name, category_description)
  /\ pc' = "category_returned"
  /\ UNCHANGED <<site, doc, lastNet, fetches, candidate, likely>>
  /\ UNCHANGED <<category_name, category_description>>
  /\ UNCHANGED extractVars
  /\ UNCHANGED linkedVars
  /\ UNCHANGED runVars
  /\ UNCHANGED <<candidate_container, details, enhanced_email,
                 enhanced_phone, formats, page>>

\* UniversityOrganizationScraper._determine_category(category_name,
\* category_description) is called and returns
CategoryCall_91_100 ==
  /\ pc = "category_call"
  /\ scraper' = "UniversityOrganizationScraper"
  /\ category' = determine_category_91_100(category_name, category_description)
  /\ pc' = "category_returned"
  /\ UNCHANGED <<site, doc, lastNet, fetches, candidate, likely>>
  /\ UNCHANGED <<category_name, category_description>>
  /\ UNCHANGED extractVars
  /\ UNCHANGED linkedVars
  /\ UNCHANGED runVars
  /\ UNCHANGED <<candidate_container, details, enhanced_email,
                 enhanced_phone, formats, page>>

CategoryNext == CategoryCall \/ CategoryCall_91_100

\* _extract_organization_details(candidate_container, base_url) is called
\* and returns
DetailsCall ==
  /\ pc = "details_call"
  /\ details' = extract_organization_details(candidate_container, base_url)
  /\ pc' = "details_returned"
  /\ UNCHANGED <<site, doc, lastNet, fetches, candidate, likely>>
  /\ UNCHANGED <<category_name, category_description, scraper, category>>
  /\ UNCHANGED <<candidate_container, enhanced_email, enhanced_phone, formats,
                 page>>
  /\ UNCHANGED extractVars
  /\ UNCHANGED linkedVars
  /\ UNCHANGED runVars

\* EnhancedScraper.extract_enhanced_email(page_text, soup) is called on a
\* page that holds the nodes of candidate_container, and returns
EnhancedEmailCall ==
  /\ pc = "details_call"
  /\ enhanced_email' =
       extract_enhanced_email(get_text(Strings(candidate_container.nodes)),
                              candidate_container.nodes)
  /\ pc' = "enhanced_returned"
  /\ UNCHANGED <<site, doc, lastNet, fetches, candidate, likely>>
  /\ UNCHANGED <<category_name, category_description, scraper, category>>
  /\ UNCHANGED <<candidate_container, details, enhanced_phone, formats, page>>
  /\ UNCHANGED extractVars
  /\ UNCHANGED linkedVars
  /\ UNCHANGED runVars

\* UniversityOrganizationScraper._extract_organization_details(
\* candidate_container, base_url) is called and returns
DetailsCall_91_100 ==
  /\ pc = "details_call"
  /\ details' = extract_organization_details_91_100(candidate_container,
                                                    base_url)
  /\ scraper' = "UniversityOrganizationScraper"
  /\ pc' = "details_91_100_returned"
  /\ UNCHANGED <<site, doc, lastNet, fetches, candidate, likely>>
  /\ UNCHANGED <<category_name, category_description, category>>
  /\ UNCHANGED <<candidate_container, enhanced_email, enhanced_phone, formats, page>>
  /\ UNCHANGED extractVars
  /\ UNCHANGED linkedVars
  /\ UNCHANGED runVars

\* _extract_detailed_organization_info(org_soup, org_url, org_name) is
\* called on a page that holds the nodes of candidate_container, for the
\* link text "Biology Club", and returns
DetailedInfoCall ==
  /\ pc = "details_call"
  /\ details' =
       <<extract_detailed_organization_info(
           candidate_container.nodes, base_url,
           <<66,105,111,108,111,103,121,32,67,108,117,98>>)>>
  /\ pc' = "detailed_info_returned"
  /\ UNCHANGED <<site, doc, lastNet, fetches, candidate, likely>>
  /\ UNCHANGED <<category_name, category_description, scraper, category>>
  /\ UNCHANGED <<candidate_container, enhanced_email, enhanced_phone, formats, page>>
  /\ UNCHANGED extractVars
  /\ UNCHANGED linkedVars
  /\ UNCHANGED runVars

\* EnhancedScraper.extract_enhanced_phone(page_text, soup) is called on a
\* page that holds the nodes of candidate_container, and returns
EnhancedPhoneCall ==
  /\ pc = "details_call"
  /\ enhanced_phone' =
       extract_enhanced_phone(get_text(Strings(candidate_container.nodes)),
                              candidate_container.nodes)
  /\ pc' = "enhanced_phone_returned"
  /\ UNCHANGED <<site, doc, lastNet, fetches, candidate, likely>>
  /\ UNCHANGED <<category_name, category_description, scraper, category>>
  /\ UNCHANGED <<candidate_container, details, enhanced_email, formats, page>>
  /\ UNCHANGED extractVars
  /\ UNCHANGED linkedVars
  /\ UNCHANGED runVars

DetailsNext ==
  \/ DetailsCall
  \/ DetailsCall_91_100
  \/ DetailedInfoCall
  \/ EnhancedEmailCall
  \/ EnhancedPhoneCall

\* no container has been given to the record builder
NoDetails ==
  /\ candidate_container = Container(<<>>, <<>>, <<>>)
  /\ details = <<>>
  /\ enhanced_email = <<>>
  /\ enhanced_phone = <<>>
  /\ formats = <<>>
  /\ page = [matches |-> <<>>, headings |-> <<>>]

\* nothing has been collected, fetched or recorded yet
Fresh ==
  /\ organizations = <<>>
  /\ seen_names = {}
  /\ unique_organizations = <<>>
  /\ org_links = <<>>
  /\ linkIdx = 1
  /\ linked_orgs = <<>>
  /\ lines = <<>>
  /\ invoked = {}
  /\ fetchLog = <<>>
  /\ outcomes = <<>>
  /\ lastNet = "none"
  /\ fetches = 0
  /\ results = {}
  /\ soup = "unset"
  /\ raised = {}
  /\ failed = {}
  /\ visited = {}

\* _find_linked_organizations called on a page of a large site
InitLinked ==
  /\ doc = NoDocument
  /\ NoDetails
  /\ category_name = <<>>
  /\ category_description = <<>>
  /\ scraper = "none"
  /\ category = "unset"
  /\ candidate = <<>>
  /\ likely = "unset"
  /\ pc = "linked_scan"
  /\ site = "large"
  /\ expected_count = 0
  /\ \E n \in 0..3 \cup (MaxFollowedLinks - 1)..MaxAnchors, lead \in {"none", "external", "navigation"} :
       anchors = AnchorList(n, lead)
  /\ universities = <<>>
  /\ uni = 0
  /\ Fresh

SpecLinked == InitLinked /\ [][LinkedNext]_vars

\* extract_organizations_from_page called on a page of a large site
InitExtract ==
  /\ doc = NoDocument
  /\ NoDetails
  /\ category_name = <<>>
  /\ category_description = <<>>
  /\ scraper = "none"
  /\ category = "unset"
  /\ candidate = <<>>
  /\ likely = "unset"
  /\ pc = "strategy1"
  /\ site = "large"
  /\ expected_count \in 1..MaxExpected
  /\ anchors = <<>>
  /\ universities = <<>>
  /\ uni = 0
  /\ Fresh

SpecExtract == InitExtract /\ [][ExtractNext]_vars

\* run_comprehensive_scraping over the universities of small sites
InitRun ==
  /\ doc = NoDocument
  /\ NoDetails
  /\ category_name = <<>>
  /\ category_description = <<>>
  /\ scraper = "none"
  /\ category = "unset"
  /\ candidate = <<>>
  /\ likely = "unset"
  /\ pc = "run_loop"
  /\ site = "small"
  /\ expected_count = 0
  /\ anchors = <<>>
  /\ universities \in [1..MaxUniversities -> {None, 1, MaxExpected}]
  /\ uni = 1
  /\ Fresh

SpecRun == InitRun /\ [][RunNext]_vars

\* _is_likely_organization_name called on a candidate text
InitName ==
  /\ doc = NoDocument
  /\ NoDetails
  /\ category_name = <<>>
  /\ category_description = <<>>
  /\ scraper = "none"
  /\ category = "unset"
  /\ pc = "name_call"
  /\ candidate \in
       UNION {Phrases(n) : n \in 0..MaxWords}
         \cup {Repeated(Vocabulary[7], 12) \o <<32>> \o Vocabulary[2],
               Repeated(Vocabulary[7], 13),
               Repeated(Vocabulary[2], 61)}
  /\ likely = "unset"
  /\ site = "small"
  /\ expected_count = 0
  /\ anchors = <<>>
  /\ universities = <<>>
  /\ uni = 0
  /\ Fresh

SpecName == InitName /\ [][NameCall]_vars

\* _determine_category of either class called on a name and a description
InitCategory ==
  /\ doc = NoDocument
  /\ NoDetails
  /\ pc = "category_call"
  /\ category_name \in UNION {CategoryPhrases(n) : n \in 0..MaxWords}
  /\ category_description \in
       {<<>>, <<118,111,108,117,110,116,101,101,114>>,
        <<66,105,98,108,101,32,115,116,117,100,121>>}
  /\ scraper = "none"
  /\ category = "unset"
  /\ candidate = <<>>
  /\ likely = "unset"
  /\ site = "small"
  /\ expected_count = 0
  /\ anchors = <<>>
  /\ universities = <<>>
  /\ uni = 0
  /\ Fresh

SpecCategory == InitCategory /\ [][CategoryNext]_vars

\* _extract_organization_details and extract_enhanced_email called on a
\* container
InitDetails ==
  /\ doc = NoDocument
  /\ category_name = <<>>
  /\ category_description = <<>>
  /\ scraper = "none"
  /\ category = "unset"
  /\ candidate = <<>>
  /\ likely = "unset"
  /\ pc = "details_call"
  /\ site = "large"
  /\ expected_count = 0
  /\ anchors = <<>>
  /\ universities = <<>>
  /\ uni = 0
  /\ Fresh
  /\ candidate_container \in DetailContainers
  /\ details = <<>>
  /\ enhanced_email = <<>>
  /\ enhanced_phone = <<>>
  /\ formats = <<>>
  /\ page = [matches |-> <<>>, headings |-> <<>>]

SpecDetails == InitDetails /\ [][DetailsNext]_vars

\* format_phone is called on the last value of formats and returns
FormatPhoneCall ==
  /\ pc = "format_call"
  /\ Len(formats) <= MaxFormatCalls
  /\ formats' = Append(formats, format_phone(formats[Len(formats)]))
  /\ UNCHANGED <<pc, site, doc, lastNet, fetches, candidate, likely>>
  /\ UNCHANGED <<category_name, category_description, scraper, category>>
  /\ UNCHANGED <<candidate_container, details, enhanced_email,
                 enhanced_phone, page>>
  /\ UNCHANGED extractVars
  /\ UNCHANGED linkedVars
  /\ UNCHANGED runVars

\* format_phone called on a phone value: an optional country code ("1",
\* "+1 ", "2"), an area code of 3 or 2 digits, plain or in parentheses, 3
\* digits and 4, 5 or 3 digits, with "", "-", "." or " " in between
InitPhone ==
  /\ doc = NoDocument
  /\ category_name = <<>>
  /\ category_description = <<>>
  /\ scraper = "none"
  /\ category = "unset"
  /\ candidate = <<>>
  /\ likely = "unset"
  /\ pc = "format_call"
  /\ site = "small"
  /\ expected_count = 0
  /\ anchors = <<>>
  /\ universities = <<>>
  /\ uni = 0
  /\ Fresh
  /\ candidate_container = Container(<<>>, <<>>, <<>>)
  /\ details = <<>>
  /\ enhanced_email = <<>>
  /\ enhanced_phone = <<>>
  /\ page = [matches |-> <<>>, headings |-> <<>>]
  /\ \E code \in {<<>>, <<49>>, <<43,49,32>>, <<50>>},
        area \in {<<54,48,53>>, <<40,54,48,53,41>>, <<54,48>>},
        first \in {<<>>, <<45>>, <<46>>, <<32>>},
        second \in {<<>>, <<45>>, <<46>>, <<32>>},
        last \in {<<54,48,49,49>>, <<54,48,49,49,50>>, <<54,48,49>>} :
       formats = <<code \o area \o first \o <<54,52,50>> \o second \o last>>

SpecPhone == InitPhone /\ [][FormatPhoneCall]_vars

\* _find_structured_organizations is called on the page and returns
StructuredCall ==
  /\ pc = "strategy_call"
  /\ organizations' = find_structured_organizations(page.matches, 1, base_url)
  /\ pc' = "structured_returned"
  /\ UNCHANGED <<site, doc, lastNet, fetches, candidate, likely>>
  /\ UNCHANGED <<category_name, category_description, scraper, category>>
  /\ UNCHANGED <<expected_count, seen_names, unique_organizations, lines,
                 invoked>>
  /\ UNCHANGED linkedVars
  /\ UNCHANGED runVars
  /\ UNCHANGED <<candidate_container, details, enhanced_email,
                 enhanced_phone, formats, page>>

\* _find_heading_based_organizations is called on the page and returns
HeadingCall ==
  /\ pc = "strategy_call"
  /\ organizations' =
       find_heading_based_organizations(page.headings, 1, base_url)
  /\ pc' = "headings_returned"
  /\ UNCHANGED <<site, doc, lastNet, fetches, candidate, likely>>
  /\ UNCHANGED <<category_name, category_description, scraper, category>>
  /\ UNCHANGED <<expected_count, seen_names, unique_organizations, lines,
                 invoked>>
  /\ UNCHANGED linkedVars
  /\ UNCHANGED runVars
  /\ UNCHANGED <<candidate_container, details, enhanced_email,
                 enhanced_phone, formats, page>>

\* _find_structured_organizations and _find_heading_based_organizations
\* called on a page. Of the selectors, the first, the sixth and the last
\* match no element, one or two club containers, three containers of the
\* navigation, three club containers, or a club container among
\* containers of the navigation. The headings of the page are the h3 of
\* containers of their own, or two h3 that share one enclosing block.
InitStrategy ==
  /\ doc = NoDocument
  /\ category_name = <<>>
  /\ category_description = <<>>
  /\ scraper = "none"
  /\ category = "unset"
  /\ candidate = <<>>
  /\ likely = "unset"
  /\ pc = "strategy_call"
  /\ site = "large"
  /\ expected_count = 0
  /\ anchors = <<>>
  /\ universities = <<>>
  /\ uni = 0
  /\ Fresh
  /\ candidate_container = Container(<<>>, <<>>, <<>>)
  /\ details = <<>>
  /\ enhanced_email = <<>>
  /\ enhanced_phone = <<>>
  /\ formats = <<>>
  /\ LET Heading(container) ==
           [node |-> container.nodes[1], parent |-> container]
         \* the h3 of two containers in one block
         Shared(c, d) ==
           LET block == Container(<<>>, c.nodes \o d.nodes, <<>>)
           IN  <<[node |-> c.nodes[1], parent |-> block],
                 [node |-> d.nodes[1], parent |-> block]>>
         matched ==
           {<<>>,
            <<PageContainer(0, 0)>>,
            <<PageContainer(0, 0), PageContainer(1, 1)>>,
            <<NavContainer, NavContainer, NavContainer>>,
            <<PageContainer(0, 0), PageContainer(1, 1), PageContainer(0, 2)>>,
            Padded(<<PageContainer(1, 0)>>)}
         headed ==
           {<<>>,
            <<Heading(PageContainer(0, 0))>>,
            <<Heading(PageContainer(0, 0)), Heading(PageContainer(1, 1))>>,
            <<Heading(NavContainer), Heading(PageContainer(0, 0))>>,
            Shared(PageContainer(0, 0), PageContainer(1, 1)),
            Shared(NavContainer, PageContainer(0, 0))}
     IN  \E first \in matched, sixth \in matched, last \in matched,
            headings \in headed :
           page = [matches  |->
                     [k \in 1..Selectors |->
                        IF k = 1 THEN first
                        ELSE IF k = 6 THEN sixth
                        ELSE IF k = Selectors THEN last
                        ELSE <<>>],
                   headings |-> headings]

SpecStrategy == InitStrategy /\ [][StructuredCall \/ HeadingCall]_vars

\* extract_organizations_from_page called on a document whose only
\* content is a list
InitList ==
  /\ doc \in Documents
  /\ NoDetails
  /\ category_name = <<>>
  /\ category_description = <<>>
  /\ scraper = "none"
  /\ category = "unset"
  /\ candidate = <<>>
  /\ likely = "unset"
  /\ pc = "strategy1"
  /\ site = "list"
  /\ expected_count \in {1, 10, 80}
  /\ anchors = <<>>
  /\ universities = <<>>
  /\ uni = 0
  /\ Fresh

SpecList == InitList /\ [][ListNext]_vars

\* ------------------------------------------------------------------------
\* Properties
\* ------------------------------------------------------------------------

\* the distinct normalized names among the records of a list
NormalizedNames(orgs) == {NormalizedName(orgs[i]) : i \in 1..Len(orgs)}

\* the index of the first record of a list with the given normalized name
FirstIndex(orgs, name) ==
  CHOOSE i \in 1..Len(orgs) :
    /\ NormalizedName(orgs[i]) = name
    /\ \A j \in 1..(i - 1) : NormalizedName(orgs[j]) # name

\* C1: in the list extract_organizations_from_page builds and returns, no
\* two records have the same name after trimming and lower-casing, and no
\* record has an empty name.
C1_UniqueNames ==
  /\ Cardinality(NormalizedNames(unique_organizations)) = Len(unique_organizations)
  /\ \A i \in 1..Len(unique_organizations) :
       unique_organizations[i].OrganizationName # <<>>

\* a returned list of several records, built from records of which two had
\* names that differ only in capitalisation
C1_Witness ==
  /\ pc = "extracted"
  /\ Len(unique_organizations) >= 2
  /\ \E i, j \in 1..Len(organizations) :
       /\ i < j
       /\ organizations[i].OrganizationName # organizations[j].OrganizationName
       /\ NormalizedName(organizations[i]) = NormalizedName(organizations[j])

\* the first non-empty value of a field among the records of a list with the
\* given normalized name, the empty text if there is none
FirstNonEmpty(orgs, name, field) ==
  LET having == {i \in 1..Len(orgs) :
                   NormalizedName(orgs[i]) = name /\ orgs[i][field] # <<>>}
  IN  IF having = {} THEN <<>>
      ELSE orgs[CHOOSE i \in having : \A j \in having : i <= j][field]

C3_Idempotent ==
  /\ LET once == AddUnique(organizations, {}, <<>>).unique
     IN  AddUnique(once, {}, <<>>).unique = once
  /\ pc \in {"general_content", "extracted"} =>
       AddUnique(unique_organizations, {}, <<>>).unique = unique_organizations

\* the pass has removed a duplicate and kept several records
C3_Witness ==
  /\ pc = "general_content"
  /\ Len(unique_organizations) >= 2
  /\ Len(unique_organizations) < Len(organizations)

\* C4: strategy 2 and strategy 3 are each invoked only if the records
\* accumulated by the earlier steps number fewer than 50% of expected_count.
C4_HalfGate ==
  [][/\ (2 \in invoked' /\ 2 \notin invoked) =>
          2 * Len(organizations) < expected_count
     /\ (3 \in invoked' /\ 3 \notin invoked) =>
          2 * Len(organizations) < expected_count]_vars

\* strategy 2 ran and brought the records to the level, strategy 3 was
\* passed over
C4_Witness ==
  /\ pc = "strategy4"
  /\ 2 \in invoked
  /\ 3 \notin invoked
  /\ 2 * Len(organizations) >= expected_count

\* C5 (as stated): strategy 4 is invoked exactly when the records
\* accumulated by steps 1-3 number fewer than 0.7 x expected_count.
C5_SeventyPercentGate ==
  /\ pc = "linked_scan" => 10 * Len(organizations) < 7 * expected_count
  /\ (pc = "remove_duplicates" /\ 4 \notin invoked) =>
       ~(10 * Len(organizations) < 7 * expected_count)

\* C5 (amended): strategy 4 is invoked exactly when the records accumulated
\* by steps 1-3 number fewer than 0.3 x expected_count.
C5_ThirtyPercentGate ==
  /\ pc = "linked_scan" => 10 * Len(organizations) < 3 * expected_count
  /\ (pc = "remove_duplicates" /\ 4 \notin invoked) =>
       ~(10 * Len(organizations) < 3 * expected_count)

\* strategy 4 was passed over with the records between 30% and 70% of
\* expected_count
C5_Witness ==
  /\ pc = "remove_duplicates"
  /\ 4 \notin invoked
  /\ 10 * Len(organizations) >= 3 * expected_count
  /\ 10 * Len(organizations) < 7 * expected_count

\* C6: the raw-text fallback is invoked only when the deduplicated records
\* of steps 1-4 number fewer than 30% of expected_count.
C6_GeneralGate ==
  [][(5 \in invoked' /\ 5 \notin invoked) =>
       10 * Cardinality(NormalizedNames(organizations)) < 3 * expected_count]_vars

\* the fallback ran although the records of steps 1-4, duplicates counted,
\* had reached 30% of expected_count
C6_Witness ==
  /\ 5 \in invoked
  /\ 10 * Len(organizations) >= 3 * expected_count

\* C7: one run of the linked-page strategy fetches at most 20 linked pages
\* and contributes at most 20 records.
C7_AtMostTwentyFetches ==
  /\ Len(fetchLog) <= 20
  /\ Len(linked_orgs) <= 20

\* the strategy has returned from a page with more than 20 qualifying
\* anchors, after 20 fetches
C7_Witness ==
  /\ pc = "linked_returned"
  /\ Len(org_links) > 20
  /\ Len(fetchLog) = 20

\* C8: the raw-text fallback adds at most 50 records to the result.
C8_AtMostFiftyAdded ==
  pc = "extracted" =>
    Len(unique_organizations) - Cardinality(NormalizedNames(organizations)) <= 50

\* the fallback ran on a text of more than 50 organization lines and added
\* 50 records
C8_Witness ==
  /\ pc = "extracted"
  /\ 5 \in invoked
  /\ Len(lines) > 50
  /\ Len(unique_organizations) - Cardinality(NormalizedNames(organizations)) = 50

\* C9: between any two consecutive page fetches a sleep occurs, also when
\* the processing of the earlier university ended with an exception.
C9_SleepBetweenFetches ==
  [][fetches' # fetches => lastNet # "fetch"]_vars

\* the names of the links whose fetch gave a page, in order
RECURSIVE NamesOfPages(_, _)
NamesOfPages(links, os) ==
  IF links = <<>> \/ os = <<>> THEN <<>>
  ELSE (IF Head(os) = "page" THEN <<Head(links).name>> ELSE <<>>)
         \o NamesOfPages(Tail(links), Tail(os))

\* C10: a failed fetch of a followed link adds no record and does not stop
\* the strategy: each of the first 20 links is fetched, and the records
\* returned are those of the links whose fetch succeeded.
C10_FailedFetchSkipped ==
  pc = "linked_returned" =>
    /\ Len(fetchLog) = Min(20, Len(org_links))
    /\ \A i \in 1..Len(fetchLog) : fetchLog[i] = org_links[i].url
    /\ [i \in 1..Len(linked_orgs) |-> linked_orgs[i].OrganizationName]
         = NamesOfPages(org_links, outcomes)

\* a fetch failed and a later fetch of the same run gave a page
C10_Witness ==
  /\ pc = "linked_returned"
  /\ \E i, j \in 1..Len(outcomes) :
       i < j /\ outcomes[i] # "page" /\ outcomes[j] = "page"
  /\ Len(linked_orgs) = Len(outcomes) - 1

\* C11: when the fetch of a university's page fails, scrape_university
\* returns an empty list without invoking any strategy, nothing is recorded
\* for the university, and the loop of the run comes to every university,
\* those after the failed one included
C11_FailedFetchEmpty ==
  /\ (uni \in failed /\ pc \in {"run_save", "run_sleep"}) =>
       /\ soup = "None"
       /\ unique_organizations = <<>>
       /\ invoked = {}
  /\ \A r \in results : r.university \notin failed
  /\ pc \in {"run_returned", "run_raised"} =>
       visited = 1..Len(universities)

\* a university's fetch failed, a later university was scraped and recorded,
\* and the run has ended
C11_Witness ==
  /\ pc = "run_returned"
  /\ \E i \in failed : \E r \in results : r.university > i

\* C12: run_comprehensive_scraping returns its results whatever the
\* universities gave; nothing raises out of the run
C12_RunReturns == pc # "run_raised"

\* the positions inside scrape_university and the code it calls
ScrapePcs ==
  {"scrape_university", "strategy1", "strategy2", "strategy3", "strategy4",
   "linked_scan", "linked_loop", "linked_fetch", "linked_returned",
   "remove_duplicates", "general_content", "extracted"}

\* C13 as stated: a university whose expected_count is None is extracted,
\* with an expected_count of 10, before the loop leaves it
C13_NoneExtractedWithTen ==
  [][(uni' = uni + 1 /\ universities[uni] = None) =>
       (1 \in invoked /\ expected_count = 10)]_vars

\* C13: the run skips a university whose expected_count is None: it is not
\* fetched, not extracted and not recorded; every university the run
\* extracts is extracted with its own expected_count
C13_NoneSkipped ==
  /\ pc \in ScrapePcs \cup {"run_save", "run_sleep"} =>
       universities[uni] # None
  /\ \A i \in failed \cup raised : universities[i] # None
  /\ \A r \in results : universities[r.university] # None
  /\ pc \in ScrapePcs \ {"scrape_university"} =>
       expected_count = universities[uni]

\* a university without expected_count was passed over and another one was
\* extracted and recorded
C13_Witness ==
  /\ pc = "run_returned"
  /\ \E i \in visited : universities[i] = None
  /\ results # {}

\* the text contains a term of the list, in whatever case
HasTerm(terms, t) == SeqAny(terms, Lower(t))

\* C17: a text that contains a term of skip_terms is not a likely
\* organization name, whatever else it contains and however many words
\* it has
C17_SkipTermRejected ==
  (likely # "unset" /\ HasTerm(skip_terms, candidate)) => likely = "False"

\* a text of 2 to 12 words with a skip term and an indicator was rejected
C17_Witness ==
  /\ likely = "False"
  /\ HasTerm(skip_terms, candidate)
  /\ HasTerm(org_indicators, candidate)
  /\ WordCount(candidate) \in 2..12

\* C18 as stated: a text that contains a term of org_indicators is a
\* likely organization name
C18_IndicatorAccepted ==
  (likely # "unset" /\ HasTerm(org_indicators, candidate)) => likely = "True"

\* C18: a text of 3 to 300 characters that contains a term of
\* org_indicators and no term of skip_terms is a likely organization name,
\* whether it has one word or more than 12
C18_IndicatorAcceptedUnlessSkipped ==
  ( /\ likely # "unset"
    /\ HasTerm(org_indicators, candidate)
    /\ ~HasTerm(skip_terms, candidate)
    /\ Len(candidate) \in 3..300 ) => likely = "True"

\* a text of more than 12 words with an indicator was accepted
C18_Witness ==
  /\ likely = "True"
  /\ HasTerm(org_indicators, candidate)
  /\ WordCount(candidate) > 12

\* the labels a category is to be one of
CategoryLabels ==
  {"Academic", "Arts", "Athletics", "Cultural", "Greek Life", "Professional",
   "Religious", "Service", "Student Government", "Special Interest",
   "General"}

\* C15: the category either class gives to a name and a description is one
\* of the eleven labels, and is what the class gives to that pair every time
C15_CategoryInLabels ==
  category # "unset" =>
    /\ category \in CategoryLabels
    /\ category = IF scraper = "ComprehensiveUniversityScraper"
                    THEN determine_category(category_name, category_description)
                    ELSE determine_category_91_100(category_name, category_description)

\* the ten categories in the order they are to be tried
CategoryOrder ==
  <<"Academic", "Arts", "Athletics", "Cultural", "Greek Life", "Professional",
    "Religious", "Service", "Student Government", "Special Interest">>

\* the categories of category_keywords with a keyword in the lower-cased
\* name and description, as indexes of CategoryOrder
Matching(name, description) ==
  {k \in 1..Len(CategoryOrder) :
     \E e \in 1..Len(category_keywords) :
       /\ category_keywords[e].category = CategoryOrder[k]
       /\ SeqAny(category_keywords[e].keywords,
                 Lower(name \o <<32>> \o description))}

\* C16: ComprehensiveUniversityScraper._determine_category returns the
\* earliest category of the order that has a keyword in the lower-cased
\* name and description, and General exactly when no category has one
C16_FirstMatchWins ==
  (category # "unset" /\ scraper = "ComprehensiveUniversityScraper") =>
    LET matching == Matching(category_name, category_description)
    IN  /\ (category = "General") <=> (matching = {})
        /\ matching # {} =>
             \E k \in matching :
               /\ category = CategoryOrder[k]
               /\ \A j \in matching : k <= j

\* a name and description with keywords of several categories was
\* classified
C16_Witness ==
  /\ category # "unset"
  /\ scraper = "ComprehensiveUniversityScraper"
  /\ Cardinality(Matching(category_name, category_description)) >= 3
  /\ category = "Arts"

\* C14: every record extract_organizations_from_page returns, and every
\* record a strategy gave it, has a non-empty name that
\* _is_likely_organization_name accepts; the name holds no term of
\* skip_terms.
C14_NamesLikely ==
  pc = "extracted" =>
    \A orgs \in {organizations, unique_organizations} :
      \A i \in 1..Len(orgs) :
        /\ orgs[i].OrganizationName # <<>>
        /\ is_likely_organization_name(orgs[i].OrganizationName)
        /\ ~HasTerm(skip_terms, orgs[i].OrganizationName)

\* the page had a navigation line and the result holds a record of a
\* container, a record of a linked page and a record of a text line
C14_Witness ==
  /\ pc = "extracted"
  /\ \E k \in 1..Len(lines) : lines[k] = TextHome
  /\ \E i \in 1..Len(organizations) :
       organizations[i].OrganizationLink = base_url
  /\ \E i \in 1..Len(organizations) :
       organizations[i].OrganizationLink # base_url
  /\ \E i \in 1..Len(unique_organizations) :
       NormalizedName(unique_organizations[i])
         \notin NormalizedNames(organizations)

\* the addresses of the mailto: links of the nodes that are valid
RECURSIVE ValidMailtos(_)
ValidMailtos(nodes) ==
  IF nodes = <<>> THEN <<>>
  ELSE LET n == Head(nodes)
       IN  (IF /\ n.tag = "a" /\ n.href # <<>>
               /\ StartsWith(n.href[1], TextMailto)
               /\ is_valid_email(MailtoEmail(n.href[1]))
              THEN <<MailtoEmail(n.href[1])>> ELSE <<>>)
             \o ValidMailtos(Tail(nodes))

\* C20: the record _extract_organization_details builds from a container
\* that holds a mailto: link with a valid address has that address as its
\* Email, whatever addresses the text of the container or of its parent
\* holds.
C20_MailtoPreferred ==
  (/\ pc = "details_returned"
   /\ details # <<>>
   /\ ValidMailtos(candidate_container.nodes) # <<>>)
    => details[1].Email = ValidMailtos(candidate_container.nodes)[1]

\* what extract_enhanced_email returns for a page that holds a mailto: link
\* with a valid address is the address of the first such link
EnhancedMailtoPreferred ==
  (/\ pc = "enhanced_returned"
   /\ ValidMailtos(candidate_container.nodes) # <<>>)
    => enhanced_email = ValidMailtos(candidate_container.nodes)[1]

\* the texts of the items of a document that _is_likely_organization_name
\* accepts
PassingItems(d) ==
  {Strip(d.items[i]) : i \in {j \in 1..Len(d.items) :
     is_likely_organization_name(Strip(d.items[j]))}}

\* C19: for a document whose only content is a list of more than 3
\* plain-text items, extract_organizations_from_page returns exactly one
\* record for each distinct item text the name predicate accepts, named by
\* that text and with a category, and no other record.
C19_OneRecordPerItem ==
  (pc = "extracted" /\ site = "list" /\ Len(doc.items) > 3) =>
    /\ {unique_organizations[i].OrganizationName :
          i \in 1..Len(unique_organizations)} = PassingItems(doc)
    /\ Len(unique_organizations) = Cardinality(PassingItems(doc))
    /\ \A i \in 1..Len(unique_organizations) :
         unique_organizations[i].Category # ""

\* the record _extract_organization_details builds from the nodes of
\* candidate_container when they have no parent but themselves
RecordAlone ==
  extract_organization_details(
    Container(<<>>, candidate_container.nodes, <<>>), base_url)[1]

\* C21: in the record _extract_organization_details returns, a contact
\* field (Email, Phone Number) that the container's own text gives is the
\* value the container gives, the same as without the parent's text; only
\* a field the container leaves empty is taken from the parent's text.
C21_ParentOnlyForEmptyField ==
  (pc = "details_returned" /\ details # <<>>) =>
    /\ extract_email(candidate_container) # <<>> =>
         /\ details[1].Email = extract_email(candidate_container)
         /\ details[1].Email = RecordAlone.Email
    /\ extract_phone(candidate_container) # <<>> =>
         /\ details[1].PhoneNumber = extract_phone(candidate_container)
         /\ details[1].PhoneNumber = RecordAlone.PhoneNumber
    /\ extract_email(candidate_container) = <<>> =>
         details[1].Email =
           extract_email_from_text(
             get_text(Strings(Parent(candidate_container))))
    /\ extract_phone(candidate_container) = <<>> =>
         details[1].PhoneNumber =
           extract_phone_from_text(
             get_text(Strings(Parent(candidate_container))))

\* the container gave a phone number and no address, the parent's text
\* before it holds another phone number and an address: the record has the
\* container's phone number and the parent's address
C21_Witness ==
  /\ pc = "details_returned"
  /\ details # <<>>
  /\ extract_phone(candidate_container) # <<>>
  /\ extract_email(candidate_container) = <<>>
  /\ extract_phone_from_text(get_text(Strings(candidate_container.before)))
       \notin {<<>>, extract_phone(candidate_container)}
  /\ details[1].PhoneNumber = extract_phone(candidate_container)
  /\ details[1].Email # <<>>
  /\ details[1].Email # RecordAlone.Email

\* the platform whose branch of the if/elif chains over the links a href
\* belongs to, "" when it matches none of facebook, twitter, x.com,
\* instagram, linkedin, youtube and tiktok
PlatformOf(href) ==
  LET Has(text) == Contains(text, Lower(href))
  IN  IF Has(<<102,97,99,101,98,111,111,107>>) THEN "facebook"
      ELSE IF Has(<<116,119,105,116,116,101,114>>) \/ Has(<<120,46,99,111,109>>)
        THEN "twitter"
      ELSE IF Has(<<105,110,115,116,97,103,114,97,109>>) THEN "instagram"
      ELSE IF Has(<<108,105,110,107,101,100,105,110>>) THEN "linkedin"
      ELSE IF Has(<<121,111,117,116,117,98,101>>) THEN "youtube"
      ELSE IF Has(<<116,105,107,116,111,107>>) THEN "tiktok"
      ELSE ""

\* the resolved URL of the first of the links that belongs to the
\* platform, "" when none does
FirstMatch(links, platform) ==
  LET matching == {k \in 1..Len(links) : PlatformOf(links[k].href[1]) = platform}
  IN  IF matching = {} THEN <<>>
      ELSE urljoin(base_url,
                   links[CHOOSE k \in matching :
                           \A j \in matching : k <= j].href[1])

\* the resolved URLs of the links that come after a link of their own
\* platform
LaterMatches(links) ==
  {urljoin(base_url, links[k].href[1]) :
     k \in {i \in 1..Len(links) :
              /\ PlatformOf(links[i].href[1]) # ""
              /\ \E j \in 1..(i - 1) :
                   PlatformOf(links[j].href[1]) = PlatformOf(links[i].href[1])}}

\* C22: every social platform slot of a record holds the first link, in
\* the order of the container's anchors and then the parent's, that
\* matches the platform, and no field of the record is taken from a later
\* link of a platform that is already filled; for the records of
\* ComprehensiveUniversityScraper._extract_organization_details and of
\* UniversityOrganizationScraper._extract_organization_details.
C22_FirstPlatformLinkWins ==
  /\ (pc = "details_returned" /\ details # <<>>) =>
       LET links == find_all_href(candidate_container.nodes)
                      \o find_all_href(Parent(candidate_container))
       IN  /\ details[1].FacebookLink  = FirstMatch(links, "facebook")
           /\ details[1].TwitterLink   = FirstMatch(links, "twitter")
           /\ details[1].InstagramLink = FirstMatch(links, "instagram")
           /\ details[1].LinkedinLink  = FirstMatch(links, "linkedin")
           /\ details[1].YoutubeLink   = FirstMatch(links, "youtube")
           /\ details[1].TiktokLink    = FirstMatch(links, "tiktok")
           /\ details[1].OrganizationLink \notin LaterMatches(links)
  /\ (pc = "details_91_100_returned" /\ details # <<>>) =>
       LET links == find_all_href(candidate_container.nodes)
       IN  /\ details[1].Facebook  = FirstMatch(links, "facebook")
           /\ details[1].Twitter   = FirstMatch(links, "twitter")
           /\ details[1].Instagram = FirstMatch(links, "instagram")
           /\ details[1].LinkedIn  = FirstMatch(links, "linkedin")
           /\ details[1].Website \notin LaterMatches(links)

\* the anchors among the links that are on the domain of base_url and
\* belong to no social platform, as indexes of links
SameDomainNonSocial(links) ==
  {k \in 1..Len(links) :
     /\ PlatformOf(links[k].href[1]) = ""
     /\ urlparse(urljoin(base_url, links[k].href[1])).netloc
          = urlparse(base_url).netloc}

\* C23: the Organization Link of every record _extract_organization_details
\* builds is not empty; it is the resolved URL of the first anchor of the
\* container and its parent that is on the domain of base_url and matches
\* no social platform, and base_url when there is no such anchor.
C23_FirstSameDomainAnchor ==
  (pc = "details_returned" /\ details # <<>>) =>
    LET links == find_all_href(candidate_container.nodes)
                   \o find_all_href(Parent(candidate_container))
        Resolved(eligible) ==
          IF eligible = {} THEN base_url
          ELSE urljoin(base_url,
                       links[CHOOSE k \in eligible :
                               \A j \in eligible : k <= j].href[1])
    IN  /\ details[1].OrganizationLink # <<>>
        /\ details[1].OrganizationLink = Resolved(SameDomainNonSocial(links))

\* phone has the form (XXX) XXX-XXXX, X a digit
IsCanonical(phone) ==
  /\ Len(phone) = 14
  /\ phone[1] = 40 /\ phone[5] = 41 /\ phone[6] = 32 /\ phone[10] = 45
  /\ \A k \in {2, 3, 4, 7, 8, 9, 11, 12, 13, 14} : phone[k] \in 48..57

\* C24: every phone value that is not empty has the form (XXX) XXX-XXXX,
\* whichever pattern matched: the Phone Number of the records
\* _extract_organization_details and _extract_detailed_organization_info
\* build, and what extract_enhanced_phone returns.
C24_PhoneCanonical ==
  /\ (/\ pc \in {"details_returned", "detailed_info_returned"}
      /\ details # <<>>
      /\ details[1].PhoneNumber # <<>>)
       => IsCanonical(details[1].PhoneNumber)
  /\ (pc = "enhanced_phone_returned" /\ enhanced_phone # <<>>)
       => IsCanonical(enhanced_phone)

\* what extract_enhanced_phone returns is empty or has the form
\* (XXX) XXX-XXXX
EnhancedPhoneCanonical ==
  (pc = "enhanced_phone_returned" /\ enhanced_phone # <<>>)
    => IsCanonical(enhanced_phone)

Paragraphs(nodes) ==
  LET elements == find_all(nodes, "p")
  IN  [k \in 1..Len(elements) |-> get_text_strip(elements[k].strings)]

\* desc holds one of the phrases of line 493: click here, read more,
\* learn more, contact, home, about us
Boilerplate(desc) ==
  \E phrase \in {<<99,108,105,99,107,32,104,101,114,101>>,
                 <<114,101,97,100,32,109,111,114,101>>,
                 <<108,101,97,114,110,32,109,111,114,101>>,
                 <<99,111,110,116,97,99,116>>,
                 <<104,111,109,101>>,
                 <<97,98,111,117,116,32,117,115>>} :
    Contains(phrase, Lower(desc))

LongParagraphCut ==
  \/ Paragraphs(candidate_container.nodes) = <<>>
  \/ Len(Paragraphs(candidate_container.nodes)[1]) # 1001
  \/ /\ pc = "detailed_info_returned" => Len(details[1].Description) = 1000
     /\ (pc = "details_returned" /\ details # <<>>)
          => details[1].Description = <<>>

\* the digits of a phone value, re.sub(r'[^\d]', '', phone)
DigitsOf(phone) == SelectSeq(phone, LAMBDA c : c \in 48..57)

\* C25: format_phone gives (XXX) XXX-XXXX over the digits of every value
\* that has exactly 10 digits, and format_phone of what format_phone
\* returned is that value again, for every value: also for one of 11 digits
\* that starts with 1 and for one it returns as it is.
C25_FormatPhoneIdempotent ==
  pc = "format_call" =>
    /\ \A k \in 2..Len(formats) :
         Len(DigitsOf(formats[k - 1])) = 10 =>
           /\ IsCanonical(formats[k])
           /\ DigitsOf(formats[k]) = DigitsOf(formats[k - 1])
    /\ \A k \in 3..Len(formats) : formats[k] = formats[k - 1]

\* format_phone was called on a value of 11 digits that starts with 1 and
\* then on what it returned, the form (XXX) XXX-XXXX of the last 10 digits
C25_Witness ==
  /\ pc = "format_call"
  /\ Len(formats) = 3
  /\ Len(DigitsOf(formats[1])) = 11
  /\ DigitsOf(formats[1])[1] = 49
  /\ IsCanonical(formats[2])
  /\ formats[2] # formats[1]
  /\ formats[3] = formats[2]

\* C28: _find_structured_organizations uses one selector, the first of the
\* fixed order that matches more than 2 elements; a selector that matches
\* 1 or 2 elements is passed over. What it returns are the records of
\* that selector's containers, and no record when none of them gives a
\* named record, whatever the later selectors match; no record either
\* when no selector matches more than 2 elements.
C28_FirstSelectorOverTwo ==
  pc = "structured_returned" =>
    LET Used(over) ==
          IF over = {} THEN organizations = <<>>
          ELSE LET k == CHOOSE k \in over : \A j \in over : k <= j
               IN  /\ organizations = RecordsOf(page.matches[k], 1, base_url)
                   /\ Len(organizations) <= Len(page.matches[k])
                   /\ (\A i \in 1..Len(page.matches[k]) :
                         extract_name(page.matches[k][i]) = <<>>)
                        => organizations = <<>>
    IN  Used({k \in 1..Len(page.matches) : Len(page.matches[k]) > 2})

\* the first selector matches two club containers, the sixth three
\* containers of the navigation and the last three club containers: the
\* strategy returned no record
C28_Witness ==
  /\ pc = "structured_returned"
  /\ Len(page.matches[1]) = 2
  /\ extract_name(page.matches[1][1]) # <<>>
  /\ Len(page.matches[6]) = 3
  /\ \A i \in 1..3 : page.matches[6][i] = NavContainer
  /\ Len(page.matches[Selectors]) = 3
  /\ \A i \in 1..3 : extract_name(page.matches[Selectors][i]) # <<>>
  /\ organizations = <<>>

\* C29: for every heading of the page whose text passes the name
\* predicate, _find_heading_based_organizations returns a record named by
\* that heading's text, also when several passing headings share one
\* enclosing block.
C29_RecordPerHeading ==
  pc = "headings_returned" =>
    \A k \in 1..Len(page.headings) :
      is_likely_organization_name(
        get_text_strip(page.headings[k].node.strings))
        => \E i \in 1..Len(organizations) :
             organizations[i].OrganizationName
               = get_text_strip(page.headings[k].node.strings)

\* the part of C29 that holds: a passing heading that is the first
\* heading of its block gives a record with its text as the name
FirstHeadingOfBlockNamed ==
  pc = "headings_returned" =>
    \A k \in 1..Len(page.headings) :
      (/\ is_likely_organization_name(
            get_text_strip(page.headings[k].node.strings))
       /\ page.headings[k].parent.nodes[1] = page.headings[k].node)
        => \E i \in 1..Len(organizations) :
             organizations[i].OrganizationName
               = get_text_strip(page.headings[k].node.strings)

\* C30: the thresholds of the cascade count distinct names: whenever the
\* records accumulated so far hold fewer distinct names (compared without
\* case) than 50% of expected_count, strategy 2, respectively strategy 3,
\* is invoked.
C30_DistinctNamesGate ==
  [][/\ (/\ pc = "strategy2"
         /\ 2 * Cardinality(NormalizedNames(organizations)) < expected_count)
          => 2 \in invoked'
     /\ (/\ pc = "strategy3"
         /\ 2 * Cardinality(NormalizedNames(organizations)) < expected_count)
          => 3 \in invoked']_vars

====
